---- MODULE Spec2Model ----
(***************************************************************************)
(* Model of the summary generators of MattSpeedReader                      *)
(* (src/generate_summaries.mjs).  Lines 1-353 are the template-based       *)
(* generator: hook extraction, domain detection, the teaser builder, the   *)
(* repetition guard of summarizeItem and main's article loop.  Lines       *)
(* 355-739 are the move-table generator: MOVES, pickMoveForDomain,         *)
(* needsRewrite, applyCapsAndRecord and its summarizeItem, run by the same *)
(* loop.  src/unnamed/part_001 (lines 149-400) is the variant-pool         *)
(* generator: needsRewrite, chooseVariant over VARIANTS and its            *)
(* summarizeItem.  world.generator says which of the three a run executes. *)
(*                                                                         *)
(* Representation.  A string is modelled by the sequence of its            *)
(* whitespace-separated words, so "" is <<>> and trim / whitespace         *)
(* collapsing leave the value unchanged.  The typographic apostrophe and   *)
(* the em dash of the source's templates are written ' and -- .            *)
(* A text (title, excerpt, article body) is modelled by what the source's  *)
(* regular expressions find in it: the capitalised phrases, the number     *)
(* tokens, the domain keyword classes and the punctuated sentences.        *)
(***************************************************************************)
EXTENDS Integers, Sequences, FiniteSets, TLC

(***************************************************************************)
(* Bounds                                                                  *)
(***************************************************************************)
MaxFeed == 1        \* longest feed served in the broad specification
RunLen  == 4        \* feed length of the long-run specification
MaxArtifact == 3    \* longest previous artifact of the history-load specification
MaxRuns == 2        \* consecutive runs of the repeated-run specification
DomainsLen == 3     \* feed length of the fixed-template specification
MovesLen == 3       \* feed length of the move-table specification

(***************************************************************************)
(* Words                                                                   *)
(***************************************************************************)
LowerOf ==
  [ w \in {"Read","See","How","What","One","Next","Production","Release",
           "Inside:","A","Key","Neighborhoods","Price","Celtics","Jayson",
           "Tatum","Brad","Marchand","Today","Learned","Hand","The","News",
           "Is","Las","Vegas","AP","May","Why?","Deal","AM","PM","What's",
           "Where","Further","Council","Why","Which","Two","New","An",
           "Who"} |->
      CASE w = "Read" -> "read"   [] w = "See" -> "see"
        [] w = "How" -> "how"     [] w = "What" -> "what"
        [] w = "One" -> "one"     [] w = "Next" -> "next"
        [] w = "Production" -> "production"
        [] w = "Release" -> "release"
        [] w = "Inside:" -> "inside:"
        [] w = "A" -> "a"         [] w = "Key" -> "key"
        [] w = "Neighborhoods" -> "neighborhoods"
        [] w = "Price" -> "price" [] w = "Celtics" -> "celtics"
        [] w = "Jayson" -> "jayson" [] w = "Tatum" -> "tatum"
        [] w = "Brad" -> "brad"   [] w = "Marchand" -> "marchand"
        [] w = "Today" -> "today" [] w = "Learned" -> "learned"
        [] w = "Hand" -> "hand"   [] w = "The" -> "the"
        [] w = "News" -> "news"   [] w = "Is" -> "is"
        [] w = "Las" -> "las"     [] w = "Vegas" -> "vegas"
        [] w = "AP" -> "ap"       [] w = "May" -> "may"
        [] w = "Why?" -> "why?"   [] w = "Deal" -> "deal"
        [] w = "AM" -> "am"       [] w = "PM" -> "pm"
        [] w = "What's" -> "what's"
        [] w = "Where" -> "where" [] w = "Further" -> "further"
        [] w = "Council" -> "council" [] w = "Why" -> "why"
        [] w = "Which" -> "which" [] w = "Two" -> "two"
        [] w = "New" -> "new"     [] w = "An" -> "an"
        [] w = "Who" -> "who" ]

\* String.prototype.toLowerCase on one word
Lower(w) == IF w \in DOMAIN LowerOf THEN LowerOf[w] ELSE w

\* words of the vocabulary that contain a question mark
QuestionMarkWords == {"Why?", "why?", "over?"}

\* words of fewer than 4 characters (cleanActor's length test)
ShortWords == {"AP", "A", "Is", "The", "Las", "May", "AM", "PM", "An"}

\* month names matched by cleanActor's date test
MonthWords == {"January","February","March","April","May","June","July",
               "August","September","October","November","December"}

\* tokens of the forms \d{1,2}:\d{2}, \d{1,2}:\d{2}(AM|PM) and \d{4}
ClockWords     == {"10:30"}
ClockAmPmWords == {"10:30AM"}
YearWords      == {"2024"}

(***************************************************************************)
(* Small helpers  (lines 27-28)                                            *)
(***************************************************************************)
\* firstTwoWords: trim, split on whitespace, first two, join, lower-case
firstTwoWords(s) ==
  IF Len(s) = 0 THEN ""
  ELSE IF Len(s) = 1 THEN Lower(s[1])
  ELSE Lower(s[1]) \o " " \o Lower(s[2])

\* teaser.split(/\s+/)[0].toLowerCase()
FirstWordOf(s) == IF Len(s) = 0 THEN "" ELSE Lower(s[1])

\* s.includes("?")
ContainsQuestionMark(s) == \E i \in 1..Len(s) : s[i] \in QuestionMarkWords

\* Array.prototype.includes on a sequence
Includes(seq, x) == \E i \in 1..Len(seq) : seq[i] = x

\* [...new Set(seq)] : first occurrences, in order
RECURSIVE Unique(_)
Unique(seq) ==
  IF seq = <<>> THEN <<>>
  ELSE LET init == Unique(SubSeq(seq, 1, Len(seq) - 1))
           last == seq[Len(seq)]
       IN IF Includes(init, last) THEN init ELSE Append(init, last)

\* seq.slice(0, n)
Slice0(seq, n) == SubSeq(seq, 1, IF Len(seq) < n THEN Len(seq) ELSE n)

\* seq.slice(1)
Slice1(seq) == IF Len(seq) = 0 THEN <<>> ELSE Tail(seq)

\* seq.filter(Boolean) on a sequence of strings
FilterNonEmpty(seq) == SelectSeq(seq, LAMBDA x : x # <<>>)

(***************************************************************************)
(* Actor cleaning  (lines 74-129)                                          *)
(***************************************************************************)
ACTOR_STOP ==
  { <<"Boston.com">>, <<"Sports","News">>, <<"News">>, <<"Today">>,
    <<"Opinion">>, <<"Local","News">>, <<"Restaurant","News">>,
    <<"Most","Popular">>, <<"Sign","Up">>, <<"Read","More">>,
    <<"Newsletter">>, <<"Email">>, <<"Comments">>,
    <<"Create","an","Account">>, <<"Minutes","to","Read">>, <<"Share">>,
    <<"Globe">>, <<"AP">>, <<"Associated","Press">>, <<"Reuters">> }

QUESTIONY_OPENERS ==
  {"what","which","how","why","where","who","when","does","do","can",
   "should","will","is","are","could","would","did"}

\* /\b\d{1,2}:\d{2}\s?(AM|PM)\b/i
LooksLikeClock(s) ==
  \E i \in 1..Len(s) :
     \/ s[i] \in ClockAmPmWords
     \/ s[i] \in ClockWords /\ i < Len(s) /\ Lower(s[i+1]) \in {"am","pm"}

\* line 92: a leading interrogative word is dropped
DropInterrogative(s) ==
  IF Lower(s[1]) \in QUESTIONY_OPENERS THEN Tail(s) ELSE s

\* line 103: s.replace(/^(The|A|An)\s+/i, "")
DropArticle(s) ==
  IF Len(s) >= 2 /\ Lower(s[1]) \in {"the", "a", "an"} THEN Tail(s) ELSE s

\* line 106: a single token of fewer than 4 characters is rejected
RejectShort(s) ==
  IF Len(s) = 0 THEN <<>>
  ELSE IF Len(s) = 1 /\ s[1] \in ShortWords THEN <<>>
  ELSE s

\* lines 95-106
RejectDatesAndPlaces(s) ==
  IF \E i \in 1..Len(s) : s[i] \in MonthWords THEN <<>>
  ELSE IF LooksLikeClock(s) THEN <<>>
  ELSE IF Len(s) = 1 /\ s[1] \in YearWords THEN <<>>
  ELSE IF Len(s) = 2 /\ Lower(s[1]) = "las" /\ Lower(s[2]) = "vegas" THEN <<>>
  ELSE RejectShort(DropArticle(s))

cleanActor(raw) ==
  IF raw = <<>> THEN <<>>
  ELSE IF raw \in ACTOR_STOP THEN <<>>
  ELSE RejectDatesAndPlaces(DropInterrogative(raw))

\* map(cleanActor).filter(Boolean)
RECURSIVE CleanAll(_)
CleanAll(cands) ==
  IF cands = <<>> THEN <<>>
  ELSE LET c == cleanActor(Head(cands))
       IN IF c = <<>> THEN CleanAll(Tail(cands))
          ELSE <<c>> \o CleanAll(Tail(cands))

\* title.phrases1: the title's matches of the 1-4 token capitalised pattern
actorsFromTitle(title) == Unique(CleanAll(title.phrases1))

\* the first element of the first non-empty list, or ""
FirstOfEither(fromTitle, fromHooks) ==
  IF Len(fromTitle) > 0 THEN fromTitle[1]
  ELSE IF Len(fromHooks) > 0 THEN fromHooks[1]
  ELSE <<>>

pickBestActor(hooks, title) ==
  FirstOfEither(actorsFromTitle(title), CleanAll(hooks.actors))

(***************************************************************************)
(* Hook extraction  (lines 131-166)                                        *)
(***************************************************************************)
extractHooks(text, title) ==
  [ actors      |-> Slice0(FilterNonEmpty(
                      Unique(actorsFromTitle(title)
                               \o Slice0(CleanAll(text.phrases2), 6))), 4),
    numbers     |-> Unique(Slice0(text.nums, 4)),
    quotes      |-> Slice0(text.quotes, 2),
    dates       |-> Unique(Slice0(text.dates, 2)),
    impacts     |-> Slice0(text.impacts, 2),
    comparisons |-> Slice0(text.comps, 1) ]

(***************************************************************************)
(* History / repetition guard  (lines 171-186)                             *)
(***************************************************************************)
HISTORY_LIMIT  == 220
FIRST_WORD_CAP == 3
MAX_ARTICLES   == 16

\* lower-cased words that contain discover, learn, reveal, unveil or uncover
BannedWords == {"learned", "discover", "reveals"}
\* lower-cased words that end in "find" / "see", or begin with "out" / "how" / "why"
EndsFind    == {"find"}
StartsOut   == {"out"}
EndsSee     == {"see", "story--see"}
StartsHowWhy == {"how", "why", "why?"}

\* BANNED_PHRASES.test(line)
BANNED_PHRASES(line) ==
  \/ \E i \in 1..Len(line) : Lower(line[i]) \in BannedWords
  \/ \E i \in 1..(Len(line) - 1) :
        \/ Lower(line[i]) \in EndsFind /\ Lower(line[i+1]) \in StartsOut
        \/ Lower(line[i]) \in EndsSee  /\ Lower(line[i+1]) \in StartsHowWhy

\* the previous artifact as read by fs.readFile + JSON.parse: an array of
\* entries (kind "array"), or a file of one of the kinds that give no array:
\* absent, not readable, not JSON, or JSON that is an object, null, a number,
\* a string, or an array of numbers, strings and nulls
UnusableKinds ==
  {"absent", "ioError", "badJson", "object", "null", "number", "string", "scalars"}
Unusable(kind) == [readable |-> FALSE, kind |-> kind, arr |-> <<>>]
Unreadable   == Unusable("absent")
FileOf(arr)  == [readable |-> TRUE, kind |-> "array", arr |-> arr]

\* it?.bullets?.[2] || ""
ThirdBullet(it) == IF Len(it.bullets) >= 3 THEN it.bullets[3] ELSE <<>>

\* lines 176-180: the non-empty openers of the entries, in order
RECURSIVE OpenersOf(_)
OpenersOf(arr) ==
  IF arr = <<>> THEN <<>>
  ELSE IF firstTwoWords(ThirdBullet(Head(arr))) # ""
       THEN <<firstTwoWords(ThirdBullet(Head(arr)))>> \o OpenersOf(Tail(arr))
       ELSE OpenersOf(Tail(arr))

\* variant: an opener is kept once
loadRecentOpeners_unique(file, limit) ==
  IF ~file.readable THEN <<>> ELSE Unique(OpenersOf(Slice0(file.arr, limit)))

\* readFile or JSON.parse throws, or arr.slice is not callable: the catch of
\* line 182 returns []; the characters of a JSON string and the elements of
\* an array of scalars have no bullets
loadRecentOpeners(file, limit) ==
  IF file.kind \in {"absent", "ioError", "badJson"} THEN <<>>
  ELSE IF file.kind \in {"object", "null", "number"} THEN <<>>
  ELSE IF file.kind \in {"string", "scalars"} THEN <<>>
  ELSE OpenersOf(Slice0(file.arr, limit))

(***************************************************************************)
(* Domain detection  (lines 191-200)                                       *)
(***************************************************************************)
Domains == {"sports", "entertainment", "gov", "courts", "realestate", "general"}

\* text.kw / section.kw : the domains whose keyword pattern matches the string
FirstMatch(st, t) ==
  IF "sports" \in st THEN "sports"
  ELSE IF "entertainment" \in st THEN "entertainment"
  ELSE IF "gov" \in t THEN "gov"
  ELSE IF "courts" \in t THEN "courts"
  ELSE IF "realestate" \in st THEN "realestate"
  ELSE "general"

detectDomain(text, section) == FirstMatch(section.kw \cup text.kw, text.kw)

(***************************************************************************)
(* Teaser builder  (lines 205-250)                                         *)
(***************************************************************************)
NEUTRAL == <<"What","happens","next","is","laid","out","inside.">>

\* hooks.numbers[0]; "" stands for undefined
FirstNumber(hooks) == IF Len(hooks.numbers) = 0 THEN "" ELSE hooks.numbers[1]

\* the table T; <<>> stands for a null entry
TeaserTable(actor, num) ==
  [ sports |-> <<
      IF actor # <<>> THEN <<"Read","what">> \o actor \o <<"said.">> ELSE <<>>,
      IF num # "" THEN <<"See","the","number","that","defines","the","deal",
                         "(" \o num \o ").">> ELSE <<>>,
      <<"How","the","move","changes","the","lineup","is","broken","down","inside.">> >>,
    entertainment |-> <<
      <<"Production","timeline","and","who's","attached","are","inside.">>,
      <<"Read","the","quote","shaping","reactions.">>,
      <<"Release","window","and","episode","plan","are","in","the","story.">> >>,
    gov |-> <<
      <<"Next","step","is","scheduled--agenda","details","inside.">>,
      <<"Inside:","the","board's","role--and","what","happens","next.">>,
      <<"A","budget","line","carries","the","weight--the","amount","is","listed.">> >>,
    courts |-> <<
      <<"Key","filings","and","the","next","court","date","are","listed","inside.">>,
      <<"Read","the","line","lawyers","are","leaning","on.">>,
      <<"What's","at","stake","if","the","motion","fails","is","outlined.">> >>,
    realestate |-> <<
      IF num # "" THEN <<"See","the","ranking's","key","number","(" \o num \o ").">>
      ELSE <<"See","the","ranking","and","what","moved","it.">>,
      <<"Neighborhoods","driving","the","shift","are","shown","on","the","map.">>,
      <<"Price","bands","and","who's","buying","are","broken","down.">> >>,
    general |-> <<
      IF actor # <<>> THEN <<"Read","what">> \o actor \o <<"said.">> ELSE <<>>,
      IF num # "" THEN <<"One","figure","reframes","the","story--see","the",
                         "number","(" \o num \o ").">>
      ELSE <<"One","figure","reframes","the","story--see","the","number.">>,
      NEUTRAL >> ]

\* list.find(Boolean)
FindFirst(list) ==
  IF \E i \in 1..Len(list) : list[i] # <<>>
  THEN list[CHOOSE i \in 1..Len(list) :
              list[i] # <<>> /\ \A j \in 1..(i - 1) : list[j] = <<>>]
  ELSE <<>>

\* words ending in "..." and what is left of them without it
EllipsisOf == [ w \in {"years...", "..."} |->
                  IF w = "years..." THEN "years" ELSE "" ]

\* s.replace(/\.\.\.$/, "").trim()
StripEllipsis(s) ==
  IF Len(s) = 0 THEN s
  ELSE IF s[Len(s)] \in DOMAIN EllipsisOf
       THEN IF EllipsisOf[s[Len(s)]] = ""
            THEN SubSeq(s, 1, Len(s) - 1)
            ELSE [s EXCEPT ![Len(s)] = EllipsisOf[s[Len(s)]]]
       ELSE s

\* T[domain] || T.general
ListFor(T, domain) == IF domain \in DOMAIN T THEN T[domain] ELSE T.general

\* list.find(Boolean) || NEUTRAL
OrNeutral(found) == IF found # <<>> THEN found ELSE NEUTRAL

\* variant: the line is returned without the test of line 248
Guardrail_off(line) == line

\* line 248
Guardrail(line) == IF BANNED_PHRASES(line) THEN NEUTRAL ELSE line

\* variant: the first entry of the list is taken even when it is null
buildTeaser_firstEntry(hooks, domain, title) ==
  StripEllipsis(
    ListFor(TeaserTable(pickBestActor(hooks, title), FirstNumber(hooks)),
            domain)[1])

buildTeaser(hooks, domain, title) ==
  Guardrail(StripEllipsis(OrNeutral(FindFirst(
    ListFor(TeaserTable(pickBestActor(hooks, title), FirstNumber(hooks)),
            domain)))))

(***************************************************************************)
(* Texts, feed items, pages and replies the environment can supply         *)
(***************************************************************************)
Txt(id, p1, p2, nums, kw, sents) ==
  [ id |-> id, phrases1 |-> p1, phrases2 |-> p2, nums |-> nums,
    quotes |-> <<>>, dates |-> <<>>, impacts |-> <<>>, comps |-> <<>>,
    kw |-> kw, sents |-> sents ]

EmptyText     == Txt("", <<>>, <<>>, <<>>, {}, <<>>)           \* ""
UndefinedText == Txt("undefined", <<>>, <<>>, <<>>, {}, <<>>)  \* undefined

\* JavaScript truthiness of a string-or-undefined value
Truthy(t) == t.id \notin {"", "undefined"}

SentTatum1 == <<"Tatum","agreed","to","a","$314","million","extension.">>
SentTatum2 == <<"The","deal","runs","five","years.">>
SentBruins == <<"Marchand","said","the","season","starts","now.">>

TitleTatum == Txt("Celtics sign Jayson Tatum to extension",
                  << <<"Celtics">>, <<"Jayson","Tatum">> >>,
                  << <<"Jayson","Tatum">> >>, <<>>, {"sports"}, <<>>)
SnipTatum  == Txt("Tatum agreed to a $314 million extension.",
                  << <<"Tatum">> >>, <<>>, <<"$314">>, {}, <<SentTatum1>>)
BodyTatum  == Txt("body:tatum", << <<"Jayson","Tatum">>, <<"The">> >>,
                  << <<"Jayson","Tatum">> >>, <<"$314">>, {"sports"},
                  <<SentTatum1, SentTatum2>>)

TitleBruins == Txt("Today in hockey", << <<"Today">> >>, <<>>, <<>>, {}, <<>>)
SnipBruins  == Txt("Brad Marchand said the season starts now.",
                   << <<"Brad","Marchand">> >>, << <<"Brad","Marchand">> >>,
                   <<"12%">>, {"sports"}, <<SentBruins>>)
BodyBruins  == Txt("body:bruins", << <<"Brad","Marchand">> >>,
                   << <<"Brad","Marchand">> >>, <<"$5">>, {"sports"},
                   <<SentBruins, SentTatum2>>)

TitleHand == Txt("Learned Hand ruling revisited",
                 << <<"Learned","Hand">> >>, <<>>, <<>>, {}, <<>>)

TitleNews == Txt("The News on the harbor",
                 << <<"The","News">> >>, <<>>, <<>>, {}, <<>>)

TitlePlain == Txt("Today on the harbor", << <<"Today">> >>, <<>>, <<>>, {}, <<>>)
BodyPlain  == Txt("body:plain", <<>>, <<>>, <<>>, {}, <<SentTatum2>>)

NoSection     == [id |-> "", kw |-> {}]
SportsSection == [id |-> "Sports", kw |-> {"sports"}]
LocalSection  == [id |-> "Local", kw |-> {}]
CourtsSection == [id |-> "Courts", kw |-> {"courts"}]

ItTatum  == [ title |-> TitleTatum, link |-> "u/tatum",
              contentSnippet |-> SnipTatum, section |-> SportsSection ]
ItBruins == [ title |-> TitleBruins, link |-> "u/bruins",
              contentSnippet |-> SnipBruins, section |-> NoSection ]
Bruins(n) == [ItBruins EXCEPT !.link = "u/bruins" \o ToString(n)]
Tatum(n)  == [ItTatum EXCEPT !.link = "u/tatum" \o ToString(n)]
ItCourts == [ title |-> TitlePlain, link |-> "u/courts",
              contentSnippet |-> EmptyText, section |-> CourtsSection ]
ItHand   == [ title |-> TitleHand, link |-> "u/hand",
              contentSnippet |-> EmptyText, section |-> LocalSection ]
ItNews   == [ title |-> TitleNews, link |-> "u/news",
              contentSnippet |-> EmptyText, section |-> LocalSection ]
\* an item the feed gives no title and no snippet
ItUntitled == [ title |-> UndefinedText, link |-> "u/untitled",
                contentSnippet |-> UndefinedText, section |-> NoSection ]
Plain(n) == [ title |-> TitlePlain, link |-> "u/plain" \o ToString(n),
              contentSnippet |-> EmptyText, section |-> LocalSection ]

\* articles for the move-table generator: one kind per domain and hook
\* combination that pickMoveForDomain tells apart
Kind(name, kw, nums, quotes, dates, impacts, titleActors) ==
  [ name |-> name, kw |-> kw, nums |-> nums, quotes |-> quotes, dates |-> dates,
    impacts |-> impacts, titleActors |-> titleActors ]
AQuote  == <<"the","season","starts","now">>
ADate   == <<"March","5">>
ABoardImpact == <<"faces","a","board","vote">>
MoveKinds ==
  { Kind("sports-stat", {"sports"}, <<"$314">>, <<>>, <<>>, <<>>, <<>>),
    Kind("sports-quote", {"sports"}, <<>>, <<AQuote>>, <<>>, <<>>, <<>>),
    Kind("sports-analysis", {"sports"}, <<>>, <<>>, <<>>, <<>>, <<>>),
    Kind("ent-timeline", {"entertainment"}, <<>>, <<>>, <<ADate>>, <<>>, <<>>),
    Kind("ent-quote", {"entertainment"}, <<>>, <<AQuote>>, <<>>, <<>>, <<>>),
    Kind("ent-role", {"entertainment"}, <<>>, <<>>, <<>>, <<>>, <<>>),
    Kind("gov-next", {"gov"}, <<>>, <<>>, <<ADate>>, <<>>, <<>>),
    Kind("gov-board", {"gov"}, <<>>, <<>>, <<>>, <<ABoardImpact>>, <<>>),
    Kind("gov-money", {"gov"}, <<"4%">>, <<>>, <<>>, <<>>, <<>>),
    Kind("gov-map", {"gov"}, <<>>, <<>>, <<>>, <<>>, <<>>),
    Kind("courts-docket", {"courts"}, <<>>, <<>>, <<ADate>>, <<>>, <<>>),
    Kind("courts-quote", {"courts"}, <<>>, <<AQuote>>, <<>>, <<>>, <<>>),
    Kind("courts-stakes", {"courts"}, <<>>, <<>>, <<>>, <<>>, <<>>),
    Kind("realestate-rank", {"realestate"}, <<"4%">>, <<>>, <<>>, <<>>, <<>>),
    Kind("realestate-map", {"realestate"}, <<>>, <<>>, <<>>, <<>>, <<>>),
    Kind("realestate-two", {"realestate"}, <<"4%", "$314">>, <<>>, <<>>, <<>>, <<>>),
    Kind("general-readWhat", {}, <<>>, <<>>, <<ADate>>, <<>>, << <<"Brad","Marchand">> >>),
    Kind("general-number", {}, <<"4%">>, <<>>, <<>>, <<>>, <<>>),
    Kind("general-next", {}, <<>>, <<>>, <<>>, <<>>, <<>>) }

MoveBody(k) ==
  [ Txt("body:" \o k.name, <<>>, <<>>, k.nums, k.kw, <<SentTatum2>>)
      EXCEPT !.quotes = k.quotes, !.dates = k.dates, !.impacts = k.impacts ]
MoveLink(k, n) == "u/" \o k.name \o ToString(n)
MoveItem(k, n) ==
  [ title |-> Txt("title:" \o k.name, k.titleActors, <<>>, <<>>, {}, <<>>),
    link |-> MoveLink(k, n), contentSnippet |-> EmptyText, section |-> NoSection ]
MovePages ==
  { [link |-> MoveLink(k, n), text |-> MoveBody(k)] :
       k \in MoveKinds, n \in 1..(MovesLen + 1) }

\* what Readability finds on the page behind a link
BruinsLinks == {"u/bruins"} \cup {"u/bruins" \o ToString(n) : n \in 1..(RunLen + 1)}
TatumLinks  == {"u/tatum"} \cup {"u/tatum" \o ToString(n) : n \in 1..(RunLen + 1)}
PageText(link) ==
  IF \E p \in MovePages : p.link = link
  THEN (CHOOSE p \in MovePages : p.link = link).text
  ELSE IF link \in TatumLinks THEN BodyTatum
  ELSE IF link \in BruinsLinks THEN BodyBruins
  ELSE BodyPlain

\* the og:image / twitter:image of the page, or null
NoImage == "null"
OgImage(link) ==
  IF link \in TatumLinks \cup BruinsLinks THEN "img:" \o link ELSE NoImage

\* feeds of the broad specification and the feeds of the long runs: plain
\* articles only, the three kinds of article in turn, and a feed that lists
\* its first article twice
BroadItems == {ItTatum, ItBruins, ItCourts, ItHand, ItNews, ItUntitled, Plain(1)}
FeedOf(list) == [up |-> TRUE, items |-> list]
FeedDown     == [up |-> FALSE, items |-> <<>>]
BroadFeeds == { FeedOf(f) : f \in UNION { [1..n -> BroadItems] : n \in 0..MaxFeed } }
RunFeeds   ==
  { FeedOf([i \in 1..RunLen |-> Plain(i)]),
    FeedOf([i \in 1..RunLen |-> IF i % 3 = 1 THEN Bruins(i)
                                 ELSE IF i % 3 = 2 THEN Tatum(i) ELSE Plain(i)]),
    FeedOf(<<Plain(1)>> \o [i \in 1..RunLen |-> Plain(i)]) }

\* feeds of the move-table specification: articles of one kind
MoveFeeds == { FeedOf([n \in 1..MovesLen |-> MoveItem(k, n)]) : k \in MoveKinds }

\* feeds of articles of one kind from the four domains whose templates take
\* no actor: entertainment, gov, courts and realestate
FixedDomains == {"entertainment", "gov", "courts", "realestate"}
FixedFeeds ==
  { FeedOf([n \in 1..DomainsLen |-> MoveItem(k, n)]) :
       k \in {m \in MoveKinds : m.kw \subseteq FixedDomains /\ m.kw # {}} }

\* feeds served to consecutive runs
RerunFeeds ==
  { FeedOf(<<>>), FeedOf(<<Bruins(1), Plain(1)>>), FeedOf(<<Tatum(1), Bruins(1)>>) }

\* previous artifacts
Entry(teaser) == [ title |-> "old", url |-> "u/old", section |-> "Top",
                   image |-> NoImage, bullets |-> <<<<"Old">>, <<"Old">>, teaser>> ]
OneFigure == <<"One","figure","reframes","the","story--see","the","number.">>
HowThe    == <<"How","the","move","changes","the","lineup","is","broken","down","inside.">>
ReadWhatOld == <<"Read","what","Celtics","said.">>
PriorArtifacts ==
  { Unreadable, FileOf(<<>>), FileOf(<<Entry(OneFigure)>>),
    FileOf(<<Entry(ReadWhatOld), Entry(HowThe)>>) }
UnusableArtifacts == { Unusable(k) : k \in UnusableKinds }

\* previous artifacts of up to MaxArtifact entries, one kind of entry having
\* an empty third bullet
NoTeaser == <<>>
LoadEntries == {Entry(OneFigure), Entry(HowThe), Entry(ReadWhatOld), Entry(NoTeaser)}
LoadArtifacts ==
  {Unreadable} \cup
  { FileOf(a) : a \in UNION { [1..n -> LoadEntries] : n \in 0..MaxArtifact } }

\* outcomes of the extraction collaborator (fetch, JSDOM, Readability)
ExtractOutcomes == {"ok", "fetchError", "httpNotOk", "domError", "readabilityError"}

\* replies of the generation collaborator.  An element of a bullets array is
\* [str |-> TRUE, v |-> line] for a string, [str |-> FALSE, ...] otherwise.
Str(line) == [str |-> TRUE, v |-> line]
NonStr    == [str |-> FALSE, v |-> <<>>]
Bullet1   == <<"Tatum","signed","an","extension.">>
Bullet2   == <<"Deal","runs","five","years...">>
Reply(kind, arr) == [kind |-> kind, arr |-> arr]
Replies ==
  { Reply("throw", <<>>), Reply("notJson", <<>>), Reply("bulletsMissing", <<>>),
    Reply("bulletsNotArray", <<>>),
    Reply("array", <<Str(Bullet1)>>),
    Reply("array", <<Str(Bullet1), Str(Bullet2), Str(NEUTRAL)>>),
    Reply("array", <<Str(<<>>), Str(Bullet2)>>),
    Reply("array", <<Str(Bullet1), NonStr>>) }

\* replies to the three-bullet prompt of the move-table generator: a third
\* bullet that passes needsRewrite, one that is a question, one with a banned
\* word, and a reply of two bullets
Bullet3Good     == <<"Council","sets","the","rate","Tuesday.">>
Bullet3Question == <<"Why","the","deal","is","over?">>
Bullet3Banned   == <<"Council","reveals","the","rate.">>
MovesReplies ==
  { Reply("throw", <<>>),
    Reply("array", <<Str(Bullet1), Str(Bullet2), Str(Bullet3Good)>>),
    Reply("array", <<Str(Bullet1), Str(Bullet2), Str(Bullet3Question)>>),
    Reply("array", <<Str(Bullet1), Str(Bullet2), Str(Bullet3Banned)>>),
    Reply("array", <<Str(Bullet1), Str(Bullet2)>>) }

\* what the network and the generation service do during one run
BroadWorld == [generator |-> "templates", outcomes |-> ExtractOutcomes,
               replies |-> Replies, shuffles |-> {<<>>}]
LoadWorld  == [generator |-> "templates", outcomes |-> {"ok"},
               replies  |-> { Reply("array", <<Str(Bullet1), Str(Bullet2)>>) },
               shuffles |-> {<<>>}]
MovesWorld == [generator |-> "moves", outcomes |-> {"ok"}, replies |-> MovesReplies,
               shuffles |-> {<<>>}]
RunWorld   == [generator |-> "templates", outcomes |-> {"ok", "fetchError"},
               replies  |-> { Reply("throw", <<>>),
                              Reply("array", <<Str(Bullet1), Str(Bullet2), Str(NEUTRAL)>>),
                              Reply("array", <<Str(Bullet1), NonStr>>) },
               shuffles |-> {<<>>}]

(***************************************************************************)
(* State                                                                   *)
(***************************************************************************)
VARIABLES
  limit,          \* the limit argument of the loadRecentOpeners call
  pc,             \* position of main: "start", "load", "feed", "extract",
                  \* "generate", "sleep", "write", "done", "exit1"
  apiKey,         \* process.env.OPENAI_API_KEY is set
  file,           \* data/summaries.json as JSON.parse reads it
  rss,            \* what the feed URL serves: FeedOf(items) or FeedDown
  world,          \* the generator that runs, the shuffle orders, and the outcomes and replies the
                  \* collaborators produce in this run
  recentOpeners,  \* main's recentOpeners
  openerFreq,     \* main's openerFreq (firstWordFreq in the move-table generator)
  usedOpeners,    \* main's usedOpeners (move-table generator)
  items,          \* main's items
  idx,            \* index in items of the article of the current iteration
  ext,            \* { text, image } returned by extractArticle for items[idx],
                  \* with the outcome of the collaborator that led to it
  results,        \* main's results
  loc,            \* locals of the latest summarizeItem call at its end
  failed,         \* indices whose iteration ended in the catch of the loop
  writes,         \* number of writeFile calls made
  seed,           \* what the loadRecentOpeners call of this run returned
  past            \* the seed and the Results of each run that has ended

vars == <<limit, pc, apiKey, file, rss, world, recentOpeners, openerFreq,
          usedOpeners, items, idx, ext,
          results, loc, failed, writes, seed, past>>

NoExt == [text |-> EmptyText, image |-> NoImage, outcome |-> "none"]
NoLoc == [called |-> FALSE]

(***************************************************************************)
(* extractArticle  (lines 39-61)                                           *)
(***************************************************************************)
\* variant: a Readability failure is handled by the outer catch
extractArticle_outerCatch(link, outcome) ==
  IF outcome = "ok"
  THEN [text |-> PageText(link), image |-> OgImage(link), outcome |-> outcome]
  ELSE [text |-> EmptyText, image |-> NoImage, outcome |-> outcome]

extractArticle(link, outcome) ==
  IF outcome \in {"fetchError", "httpNotOk", "domError"}
  THEN [text |-> EmptyText, image |-> NoImage, outcome |-> outcome]   \* outer catch
  ELSE IF outcome = "readabilityError"
  THEN [text |-> EmptyText, image |-> OgImage(link), outcome |-> outcome] \* inner catch
  ELSE [text |-> PageText(link), image |-> OgImage(link), outcome |-> outcome]

(***************************************************************************)
(* dedupe  (lines 63-69)                                                   *)
(***************************************************************************)
RECURSIVE dedupe(_)
dedupe(list) ==
  IF list = <<>> THEN <<>>
  ELSE LET init == dedupe(SubSeq(list, 1, Len(list) - 1))
           last == list[Len(list)]
       IN IF \E i \in 1..Len(init) : init[i].link = last.link
          THEN init ELSE Append(init, last)

(***************************************************************************)
(* summarizeItem  (lines 255-317)                                          *)
(***************************************************************************)
\* text || contentSnippet || title
ArticleText(item, text) ==
  IF Truthy(text) THEN text
  ELSE IF Truthy(item.contentSnippet) THEN item.contentSnippet
  ELSE item.title

\* lines 281-296: [threw, two] before cleaning
ModelBullets(reply, articleText) ==
  IF reply.kind \in {"throw", "notJson"}
  THEN IF articleText.id = "undefined"
       THEN [threw |-> TRUE, two |-> <<>>]          \* undefined.match(...)
       ELSE [threw |-> FALSE,
             two |-> [i \in 1..Len(Slice0(articleText.sents, 2)) |->
                        Str(articleText.sents[i])]]
  ELSE IF reply.kind = "array"
  THEN [threw |-> FALSE, two |-> Slice0(reply.arr, 2)]
  ELSE [threw |-> FALSE, two |-> <<>>]

\* line 298: b.replace(...) is a TypeError on a non-string element
CleanTwo(mb) ==
  IF mb.threw \/ \E i \in 1..Len(mb.two) : ~mb.two[i].str
  THEN [threw |-> TRUE, two |-> <<>>]
  ELSE [threw |-> FALSE,
        two |-> [i \in 1..Len(mb.two) |-> StripEllipsis(mb.two[i].v)]]

FreqOf(freq, w) == IF w \in DOMAIN freq THEN freq[w] ELSE 0

\* openerFreq[firstWord] = (openerFreq[firstWord] || 0) + 1
Bump(freq, w) ==
  [x \in DOMAIN freq \cup {w} |-> IF x = w THEN FreqOf(freq, w) + 1 ELSE freq[x]]

\* variant: any alternate sentence is kept
AltAccepted_any(alt, opener) == alt # <<>>

\* variant: every teaser is treated as a repetition
Triggered_always(opener, firstWord, recent, freq) == TRUE

\* line 306: the repetition trigger
Triggered(opener, firstWord, recent, freq) ==
  Includes(recent, opener) \/ FreqOf(freq, firstWord) >= FIRST_WORD_CAP

\* line 310: the alternate is kept when its opener differs from the composed one
AltAccepted(alt, opener) == alt # <<>> /\ firstTwoWords(alt) # opener

\* line 312: the word whose counter is incremented
CountedWord(composed, teaser) == FirstWordOf(composed)

\* line 313: the opener that is recorded
RecordedOpener(composed, teaser) == firstTwoWords(composed)

\* line 308
AltHooks(hooks) ==
  [hooks EXCEPT !.actors = Slice1(hooks.actors), !.numbers = Slice1(hooks.numbers)]

\* lines 306-311: which of the three sentences is kept
PathOf(trig, alt, opener) ==
  IF ~trig THEN "composed"
  ELSE IF AltAccepted(alt, opener) THEN "alt" ELSE "neutral"

TeaserOf(path, composed, alt) ==
  IF path = "composed" THEN composed
  ELSE IF path = "alt" THEN alt ELSE NEUTRAL

\* lines 312-313: the new openerFreq and recentOpeners
Record(recent, recorded) ==
  IF Includes(recent, recorded) THEN recent ELSE Append(recent, recorded)

GuardEnd(composed, alt, path, teaser, recent, freq) ==
  [ composed |-> composed, opener |-> firstTwoWords(composed),
    firstWord |-> FirstWordOf(composed),
    alt |-> IF path = "composed" THEN <<>> ELSE alt,
    rederived |-> IF path = "composed" THEN 0 ELSE 1,
    teaser |-> teaser, path |-> path,
    freq |-> Bump(freq, CountedWord(composed, teaser)),
    recent |-> Record(recent, RecordedOpener(composed, teaser)) ]

GuardPath(composed, alt, path, recent, freq) ==
  GuardEnd(composed, alt, path, TeaserOf(path, composed, alt), recent, freq)

GuardLines(composed, alt, recent, freq) ==
  GuardPath(composed, alt,
            PathOf(Triggered(firstTwoWords(composed), FirstWordOf(composed),
                             recent, freq),
                   alt, firstTwoWords(composed)),
            recent, freq)

\* lines 300-313: the guard; returns the locals and the new history
Guard(hooks, domain, title, recent, freq) ==
  GuardLines(buildTeaser(hooks, domain, title),
             buildTeaser(AltHooks(hooks), domain, title), recent, freq)

\* two[i] || ""
At(two, i) == IF i <= Len(two) THEN two[i] ELSE <<>>

\* lines 315-316 with the locals of the call
Locals(item, e, reply, recent, freq, hooks, articleText, domain, ct, g) ==
  [ called |-> TRUE, threw |-> ct.threw, item |-> item, ext |-> e,
    text |-> e.text,
    hooks |-> hooks, articleText |-> articleText, domain |-> domain,
    reply |-> reply, recentBefore |-> recent, freqBefore |-> freq,
    two |-> ct.two, g |-> g,
    bullets |-> <<At(ct.two, 1), At(ct.two, 2), g.teaser>>,
    image |-> e.image ]

WithText(item, e, reply, recent, freq, hooks, articleText, domain) ==
  Locals(item, e, reply, recent, freq, hooks, articleText, domain,
         CleanTwo(ModelBullets(reply, articleText)),
         Guard(hooks, domain, item.title, recent, freq))

\* the whole call after extraction: the values of its locals when it ends
summarizeItem(item, e, reply, recent, freq) ==
  WithText(item, e, reply, recent, freq,
           extractHooks(e.text, item.title),
           ArticleText(item, e.text),
           detectDomain(e.text, item.section))

(***************************************************************************)
(* The move-table generator  (lines 355-739): style constraints, MOVES,    *)
(* pickMoveForDomain, needsRewrite, applyCapsAndRecord and its             *)
(* summarizeItem.  extractArticle, dedupe, detectDomain, firstTwoWords,    *)
(* loadRecentOpeners and main's loop are the same code as in the           *)
(* template-based generator.                                               *)
(***************************************************************************)
FIRST_WORD_CAP_MOVES == 2

\* lower-cased words that contain discover, learn, unveil, reveal, uncover
\* or explore
BannedWordsMoves == {"learned", "discover", "reveals", "explore"}
EndsRead   == {"read"}
EndsHeres  == {"here's"}
EndsThis   == {"this"}

\* BANNED_PHRASES.some(p => lower.includes(p))  (lines 521-525, 594)
BANNED_PHRASES_MOVES(line) ==
  \/ \E i \in 1..Len(line) : Lower(line[i]) \in BannedWordsMoves
  \/ \E i \in 1..(Len(line) - 1) :
        \/ Lower(line[i]) \in EndsFind /\ Lower(line[i+1]) \in StartsOut
        \/ Lower(line[i]) \in (EndsSee \cup EndsRead \cup EndsHeres)
              /\ Lower(line[i+1]) \in StartsHowWhy
  \/ \E i \in 1..(Len(line) - 2) :
        /\ Lower(line[i]) \in EndsThis /\ Lower(line[i+1]) = "is"
        /\ Lower(line[i+2]) \in StartsHowWhy

\* h.actor || fallback, h.number, h.when: "" / <<>> stand for undefined
FirstOf(seq) == IF Len(seq) = 0 THEN <<>> ELSE seq[1]
OrElse(s, fallback) == IF s # <<>> THEN s ELSE fallback

\* s followed by a suffix glued to its last word; s preceded by a prefix
\* glued to its first word
Glue(s, suffix) == [s EXCEPT ![Len(s)] = s[Len(s)] \o suffix]
GlueFront(prefix, s) == [s EXCEPT ![1] = prefix \o s[1]]

\* the table MOVES (lines 532-567), each entry applied to h
MOVES(h) ==
  [ sports |-> [
      quote    |-> <<"Read">> \o Glue(OrElse(h.actor, <<"the","player">>), "'s")
                     \o <<"key","line","in","context.">>,
      stat     |-> IF h.number # ""
                   THEN <<"See","the","figure","that","defines","the","deal",
                          "(" \o h.number \o ").">>
                   ELSE <<"See","the","figure","that","defines","the","deal.">>,
      next     |-> IF h.when # <<>>
                   THEN <<"Next","on","the","calendar:">> \o Glue(h.when, "--details")
                          \o <<"inside.">>
                   ELSE <<"Next","on","the","calendar--details","inside.">>,
      analysis |-> <<"How","the","move","changes","the","lineup","is","broken",
                     "down","inside.">> ],
    entertainment |-> [
      timeline |-> <<"Production","timeline","and","who's","attached","are","inside.">>,
      quote    |-> <<"Read","the","line","that's","shaping","reactions.">>,
      role     |-> <<"See","how","the","role","is","framed--and","what","it","signals.">>,
      release  |-> <<"Release","window","and","episode","plan","are","in","the","story.">> ],
    gov |-> [
      next     |-> IF h.when # <<>>
                   THEN <<"Next","step","is","scheduled">>
                          \o Glue(GlueFront("(", h.when), ")--agenda")
                          \o <<"details","inside.">>
                   ELSE <<"Next","step","is","scheduled--agenda","details","inside.">>,
      money    |-> <<"A","budget","line","carries","the","weight--the","amount","is","listed.">>,
      map      |-> <<"Where","the","plan","faces","its","toughest","test","is",
                     "mapped","inside.">>,
      board    |-> <<"Inside:","the","board's","role--and","what","happens","next.">> ],
    courts |-> [
      docket   |-> <<"Key","filings","and","next","court","date","are","listed","inside.">>,
      quote    |-> <<"Read","the","line","lawyers","are","leaning","on.">>,
      stakes   |-> <<"What's","at","stake","if","the","motion","fails","is","outlined.">> ],
    realestate |-> [
      rank     |-> <<"See","the","ranking","and","the","number","that","moves","the","list.">>,
      map      |-> <<"Neighborhoods","driving","the","shift","are","shown","on","the","map.">>,
      money    |-> <<"Price","bands","and","who's","buying","are","broken","down.">> ],
    general |-> [
      readWhat |-> <<"Read","what">> \o OrElse(h.actor, <<"officials">>)
                     \o (IF h.when # <<>> THEN <<"said","on">> \o Glue(h.when, ".")
                         ELSE <<"said.">>),
      number   |-> <<"One","figure","reframes","the","story--see","the","number.">>,
      next     |-> NEUTRAL,
      quote    |-> <<"A","single","line","is","driving","pushback--read","it","in",
                     "the","piece.">> ] ]

\* /\bboard\b/i.test(hooks.impacts.join(" "))
BoardWords == {"board", "board's", "board."}
MentionsBoard(impacts) ==
  \E i \in 1..Len(impacts) : \E k \in 1..Len(impacts[i]) :
     Lower(impacts[i][k]) \in BoardWords

\* lines 569-578
pickMoveForDomain(domain, hooks) ==
  CASE domain = "sports" ->
         IF Len(hooks.numbers) > 0 THEN "stat"
         ELSE IF Len(hooks.quotes) > 0 THEN "quote" ELSE "analysis"
    [] domain = "entertainment" ->
         IF Len(hooks.dates) > 0 THEN "timeline"
         ELSE IF Len(hooks.quotes) > 0 THEN "quote" ELSE "role"
    [] domain = "gov" ->
         IF Len(hooks.dates) > 0 THEN "next"
         ELSE IF MentionsBoard(hooks.impacts) THEN "board"
         ELSE IF Len(hooks.numbers) > 0 THEN "money" ELSE "map"
    [] domain = "courts" ->
         IF Len(hooks.dates) > 0 THEN "docket"
         ELSE IF Len(hooks.quotes) > 0 THEN "quote" ELSE "stakes"
    [] domain = "realestate" ->
         IF Len(hooks.numbers) > 0 THEN "rank" ELSE "map"
    [] OTHER ->
         IF Len(hooks.actors) > 0 THEN "readWhat"
         ELSE IF Len(hooks.numbers) > 0 THEN "number" ELSE "next"

\* lines 583-588
isQuestionish(s) ==
  ContainsQuestionMark(s) \/ FirstWordOf(s) \in QUESTIONY_OPENERS

\* lines 590-598
needsRewrite(b3, recent) ==
  \/ b3 = <<>>
  \/ isQuestionish(b3)
  \/ BANNED_PHRASES_MOVES(b3)
  \/ (firstTwoWords(b3) # "" /\ Includes(recent, firstTwoWords(b3)))

\* line.replace(/\?+/g, "") on the words that carry a question mark
WithoutQuestionMark ==
  [ w \in QuestionMarkWords |->
      IF w = "Why?" THEN "Why" ELSE IF w = "why?" THEN "why" ELSE "over" ]
StripQuestionMarks(s) ==
  [i \in 1..Len(s) |-> IF s[i] \in QuestionMarkWords
                        THEN WithoutQuestionMark[s[i]] ELSE s[i]]

\* lines 600-608: the stored line and the new usedOpeners, firstWordFreq and
\* recentOpeners
Recorded(s, recent, used, freq) ==
  [ line   |-> s,
    used   |-> used \cup {firstTwoWords(s)},
    freq   |-> Bump(freq, FirstWordOf(s)),
    recent |-> Record(recent, firstTwoWords(s)) ]

applyCapsAndRecord(line, recent, used, freq) ==
  Recorded(StripQuestionMarks(line), recent, used, freq)

\* lines 423-426
ACTOR_STOP_MOVES ==
  { <<"Boston.com">>, <<"Sports","News">>, <<"News">>, <<"Today">>,
    <<"Opinion">>, <<"Local","News">>, <<"Restaurant","News">>,
    <<"Most","Popular">>, <<"Sign","Up">>, <<"Read","More">>,
    <<"Newsletter">>, <<"Email">>, <<"Comments">>,
    <<"Create","an","Account">>, <<"Minutes","to","Read">>, <<"Sha">>,
    <<"Share">> }

\* words that begin with "read", contain "sign" or "most", end in "sports"
\* (any case)
ReadWords     == {"Read"}
SignMostWords == {"Sign", "Most"}
SportsWords   == {"Sports"}

\* /^\d{1,2}:\d{2}\s?(AM|PM)$/i
IsClock(s) ==
  \/ Len(s) = 1 /\ s[1] \in ClockAmPmWords
  \/ Len(s) = 2 /\ s[1] \in ClockWords /\ Lower(s[2]) \in {"am", "pm"}

\* /^Read|Sign|Most|Sports$/i
LooksLikeUi(s) ==
  \/ s[1] \in ReadWords
  \/ \E i \in 1..Len(s) : s[i] \in SignMostWords
  \/ s[Len(s)] \in SportsWords

\* lines 428-436
cleanActorMoves(raw) ==
  IF raw = <<>> THEN <<>>
  ELSE IF raw \in ACTOR_STOP_MOVES THEN <<>>
  ELSE IF IsClock(raw) THEN <<>>
  ELSE IF LooksLikeUi(raw) THEN <<>>
  ELSE raw

RECURSIVE CleanAllMoves(_)
CleanAllMoves(cands) ==
  IF cands = <<>> THEN <<>>
  ELSE IF cleanActorMoves(Head(cands)) = <<>> THEN CleanAllMoves(Tail(cands))
  ELSE <<cleanActorMoves(Head(cands))>> \o CleanAllMoves(Tail(cands))

\* lines 438-446
extractActorsFromTitle(title) == Slice0(Unique(CleanAllMoves(title.phrases1)), 3)

\* lines 448-483
extractHooksMoves(text, title) ==
  [ actors      |-> Slice0(FilterNonEmpty(
                      Unique(extractActorsFromTitle(title)
                               \o Slice0(CleanAllMoves(text.phrases2), 4))), 4),
    numbers     |-> Unique(Slice0(text.nums, 4)),
    quotes      |-> Slice0(text.quotes, 2),
    dates       |-> Unique(Slice0(text.dates, 2)),
    impacts     |-> Slice0(text.impacts, 2),
    comparisons |-> Slice0(text.comps, 1) ]

\* line 674
Filler == <<"Further","context","is","in","the","full","story.">>

\* lines 663-671: the array before cleaning; the pieces of a reply that is
\* not JSON are what the split of the catch finds
RawBullets(reply) ==
  IF reply.kind \in {"array", "notJson"} THEN Slice0(reply.arr, 3) ELSE <<>>

\* lines 654-674: the create call is not inside a try, and b.replace is a
\* TypeError on an element that is not a string
PaddedBullets(reply, raw) ==
  IF reply.kind = "throw" \/ \E i \in 1..Len(raw) : ~raw[i].str
  THEN [threw |-> TRUE, three |-> <<>>]
  ELSE [threw |-> FALSE,
        three |-> [i \in 1..3 |-> IF i <= Len(raw) THEN StripEllipsis(raw[i].v)
                                   ELSE Filler]]

\* the argument of the template (line 681)
MoveHooks(hooks) ==
  [ actor |-> FirstOf(hooks.actors), number |-> FirstNumber(hooks),
    when |-> FirstOf(hooks.dates) ]

\* MOVES[domain] || MOVES.general
MoveSetOf(table, domain) ==
  IF domain \in DOMAIN table THEN table[domain] ELSE table.general

\* moveSet[moveKey] || MOVES.general.next
TemplateOf(moveSet, moveKey) ==
  IF moveKey \in DOMAIN moveSet THEN moveSet[moveKey] ELSE NEUTRAL

\* lines 678-681
Candidate(domain, hooks) ==
  TemplateOf(MoveSetOf(MOVES(MoveHooks(hooks)), domain),
             pickMoveForDomain(domain, hooks))

\* lines 686-691 with the locals of lines 677-691
MovesGuardEnd(draft, rewritten, line, capped, rec) ==
  [ draft |-> draft, rewritten |-> rewritten, line |-> line, capped |-> capped,
    teaser |-> rec.line, recent |-> rec.recent, freq |-> rec.freq,
    used |-> rec.used ]

MovesGuardCap(draft, rewritten, line, capped, recent, used, freq) ==
  MovesGuardEnd(draft, rewritten, line, capped,
                applyCapsAndRecord(IF capped THEN NEUTRAL ELSE line,
                                   recent, used, freq))

MovesGuardLine(draft, rewritten, line, recent, used, freq) ==
  MovesGuardCap(draft, rewritten, line,
                FreqOf(freq, FirstWordOf(line)) >= FIRST_WORD_CAP_MOVES,
                recent, used, freq)

MovesGuardRewrite(draft, rewritten, domain, hooks, recent, used, freq) ==
  MovesGuardLine(draft, rewritten,
                 IF rewritten THEN Candidate(domain, hooks) ELSE draft,
                 recent, used, freq)

\* lines 677-691
MovesGuard(draft, domain, hooks, recent, used, freq) ==
  MovesGuardRewrite(draft, needsRewrite(draft, recent), domain, hooks,
                    recent, used, freq)

NoGuard == [rewritten |-> FALSE]

MovesLocals(item, e, reply, recent, used, freq, hooks, domain, pb, g) ==
  [ called |-> TRUE, threw |-> pb.threw, item |-> item, ext |-> e,
    text |-> e.text, hooks |-> hooks, domain |-> domain, reply |-> reply,
    recentBefore |-> recent, usedBefore |-> used, freqBefore |-> freq,
    g |-> g,
    bullets |-> IF pb.threw THEN <<>> ELSE <<pb.three[1], pb.three[2], g.teaser>>,
    image |-> e.image ]

MovesWithBullets(item, e, reply, recent, used, freq, hooks, domain, pb) ==
  MovesLocals(item, e, reply, recent, used, freq, hooks, domain, pb,
              IF pb.threw THEN NoGuard
              ELSE MovesGuard(pb.three[3], domain, hooks, recent, used, freq))

\* lines 613-697: the whole call after extraction
summarizeItemMoves(item, e, reply, recent, used, freq) ==
  MovesWithBullets(item, e, reply, recent, used, freq,
                   extractHooksMoves(e.text, item.title),
                   detectDomain(e.text, item.section),
                   PaddedBullets(reply, RawBullets(reply)))

(***************************************************************************)
(* The variant-pool generator  (src/unnamed/part_001, lines 149-400):      *)
(* needsRewrite, VARIANTS, chooseVariant and its summarizeItem.  The       *)
(* credential check, loadRecentOpeners, extractArticle, dedupe and main's  *)
(* loop have the shape of the template-based generator's.                  *)
(***************************************************************************)
FIRST_WORD_CAP_VARIANTS == 2

\* main calls loadRecentOpeners(200)  (part_001 line 368)
HISTORY_LIMIT_VARIANTS == 200

\* part_001 lines 227-250
VARIANTS ==
  << <<"Which","detail","shifts","the","stakes","appears","in","the","piece.">>,
     <<"What","officials","weigh","next","could","change","the","outcome.">>,
     <<"Key","number","and","who","it","affects","are","in","the","full","report.">>,
     <<"Two","paths","emerge--what","each","would","mean","is","explained.">>,
     <<"One","quote","is","driving","pushback--catch","it","in","the","story.">>,
     <<"A","deadline","forces","a","decision","sooner","than","expected.">>,
     <<"New","data","point","reframes","the","issue--see","the","figure","inside.">>,
     <<"Where","the","plan","faces","its","toughest","test","comes","next.">>,
     <<"The","name","behind","the","holdup","appears","in","the","article.">>,
     <<"A","small","rule","has","big","effects--the","specific","one","is","named.">>,
     <<"Which","precincts","moved","most--and","why--are","detailed","inside.">>,
     <<"What","happens","if","a","vote","stalls","is","outlined","in","the","piece.">>,
     <<"How","commuters","and","businesses","are","hit","differs--breakdown","inside.">>,
     <<"A","single","paragraph","explains","the","opposition's","strategy.">>,
     <<"One","map","tells","the","story--pressure","points","are","shown.">>,
     <<"An","unexpected","actor","could","decide","it;","they're","identified.">>,
     <<"Next","hearing","and","agenda","items","are","listed.">>,
     <<"A","budget","line","does","most","of","the","work--the","amount","is","there.">>,
     <<"What","experts","flagged","privately","surfaces","publicly","here.">>,
     <<"Which","metric","the","mayor","watches","shows","up","in","the","story.">>,
     <<"A","wording","change","matters--the","exact","line","is","quoted.">>,
     <<"Who","benefits","first--and","who","waits--breaks","down","in","the","article.">> >>

\* BANNED_PHRASES.some(p => lower.includes(p))  (part_001 lines 220-224, 259)
BANNED_PHRASES_VARIANTS(line) ==
  \/ \E i \in 1..Len(line) : Lower(line[i]) \in BannedWordsMoves
  \/ \E i \in 1..(Len(line) - 1) :
        \/ Lower(line[i]) \in EndsFind /\ Lower(line[i+1]) \in StartsOut
        \/ Lower(line[i]) \in (EndsSee \cup EndsRead \cup EndsHeres)
              /\ Lower(line[i+1]) \in StartsHowWhy
  \/ \E i \in 1..(Len(line) - 2) :
        /\ Lower(line[i]) \in EndsThis /\ Lower(line[i+1]) = "is"
        /\ Lower(line[i+2]) \in StartsHowWhy

\* part_001 lines 256-263
needsRewriteVariants(b3, recent) ==
  \/ b3 = <<>>
  \/ BANNED_PHRASES_VARIANTS(b3)
  \/ (firstTwoWords(b3) # "" /\ Includes(recent, firstTwoWords(b3)))

\* the three continue statements of the loop (part_001 lines 270-272)
Skips(v, recent, used, freq) ==
  \/ Includes(recent, firstTwoWords(v))
  \/ firstTwoWords(v) \in used
  \/ FreqOf(freq, FirstWordOf(v)) >= FIRST_WORD_CAP_VARIANTS

\* the for loop of part_001 lines 267-276: the first sentence of the shuffled
\* pool that no continue skips, <<>> when the loop ends without returning
RECURSIVE FirstKept(_, _, _, _)
FirstKept(shuffled, recent, used, freq) ==
  IF shuffled = <<>> THEN <<>>
  ELSE IF ~Skips(Head(shuffled), recent, used, freq) THEN Head(shuffled)
  ELSE FirstKept(Tail(shuffled), recent, used, freq)

\* usedOpeners.add(op2); firstWordFreq[first] += 1; return v
\* (part_001 lines 273-275 and 281-283)
Chosen(v, used, freq) ==
  [ v |-> v, used |-> used \cup {firstTwoWords(v)},
    freq |-> Bump(freq, FirstWordOf(v)) ]

\* variant: the first sentence of the shuffled pool, whatever the history
chooseVariant_first(shuffled, recent, used, freq) ==
  Chosen(shuffled[1], used, freq)

\* part_001 lines 264-284; shuffled is the pool after the random sort of
\* line 266
chooseVariant(shuffled, recent, used, freq) ==
  Chosen(OrElse(FirstKept(shuffled, recent, used, freq), shuffled[1]),
         used, freq)

\* part_001 line 349
FillerVariants == <<"Further","context","in","the","full","story.">>

\* part_001 lines 337-345: the array before cleaning
RawBulletsVariants(reply) ==
  IF reply.kind \in {"array", "notJson"} THEN Slice0(reply.arr, 3) ELSE <<>>

\* part_001 lines 328-349: the create call is not inside a try, and
\* b.replace is a TypeError on an element that is not a string
PaddedBulletsVariants(reply, raw) ==
  IF reply.kind = "throw" \/ \E i \in 1..Len(raw) : ~raw[i].str
  THEN [threw |-> TRUE, three |-> <<>>]
  ELSE [threw |-> FALSE,
        three |-> [i \in 1..3 |-> IF i <= Len(raw) THEN StripEllipsis(raw[i].v)
                                   ELSE FillerVariants]]

\* part_001 lines 353-358: an accepted third bullet is recorded as it is
AcceptedAsIs(b3, used, freq) ==
  [ v |-> b3, used |-> used \cup {firstTwoWords(b3)},
    freq |-> Bump(freq, FirstWordOf(b3)) ]

\* part_001 lines 361-363: the opener is pushed, repeated or not
Pushed(recent, opener) == IF opener # "" THEN Append(recent, opener) ELSE recent

VariantsGuardEnd(b3, rewritten, c, recent) ==
  [ draft |-> b3, rewritten |-> rewritten, teaser |-> c.v, used |-> c.used,
    freq |-> c.freq, recent |-> Pushed(recent, firstTwoWords(c.v)) ]

VariantsGuardPick(b3, rewritten, shuffled, recent, used, freq) ==
  VariantsGuardEnd(b3, rewritten,
                   IF rewritten THEN chooseVariant(shuffled, recent, used, freq)
                   ELSE AcceptedAsIs(b3, used, freq),
                   recent)

\* part_001 lines 351-363
VariantsGuard(b3, shuffled, recent, used, freq) ==
  VariantsGuardPick(b3, needsRewriteVariants(b3, recent), shuffled, recent,
                    used, freq)

VariantsLocals(item, e, reply, shuffled, recent, used, freq, pb, g) ==
  [ called |-> TRUE, threw |-> pb.threw, item |-> item, ext |-> e,
    text |-> e.text, reply |-> reply, shuffled |-> shuffled,
    recentBefore |-> recent, usedBefore |-> used, freqBefore |-> freq,
    g |-> g,
    bullets |-> IF pb.threw THEN <<>> ELSE <<pb.three[1], pb.three[2], g.teaser>>,
    image |-> e.image ]

VariantsWithBullets(item, e, reply, shuffled, recent, used, freq, pb) ==
  VariantsLocals(item, e, reply, shuffled, recent, used, freq, pb,
                 IF pb.threw THEN NoGuard
                 ELSE VariantsGuard(pb.three[3], shuffled, recent, used, freq))

\* part_001 lines 287-364: the whole call after extraction
summarizeItemVariants(item, e, reply, shuffled, recent, used, freq) ==
  VariantsWithBullets(item, e, reply, shuffled, recent, used, freq,
                      PaddedBulletsVariants(reply, RawBulletsVariants(reply)))

\* the orders the random sort of line 266 leaves the pool in: rotations of
\* VARIANTS by multiples of five
ShuffleCount == 5
VariantsLen  == 3
Rotate(seq, k) == [i \in 1..Len(seq) |-> seq[((i - 1 + k) % Len(seq)) + 1]]
Shuffles == { Rotate(VARIANTS, 5 * k) : k \in 0..(ShuffleCount - 1) }

\* replies to the three-bullet prompt: a third bullet that needsRewrite
\* accepts, one with a banned word, an empty one, and a reply of two bullets
VariantsReplies ==
  { Reply("throw", <<>>),
    Reply("array", <<Str(Bullet1), Str(Bullet2), Str(Bullet3Good)>>),
    Reply("array", <<Str(Bullet1), Str(Bullet2), Str(Bullet3Banned)>>),
    Reply("array", <<Str(Bullet1), Str(Bullet2), Str(<<>>)>>),
    Reply("array", <<Str(Bullet1), Str(Bullet2)>>) }

VariantsWorld == [generator |-> "variants", outcomes |-> {"ok"},
                  replies |-> VariantsReplies, shuffles |-> Shuffles]

\* previous artifacts: none, one whose teaser is the first sentence of the
\* pool, and one whose teasers are the whole pool
VariantsArtifacts ==
  { FileOf(<<>>), FileOf(<<Entry(VARIANTS[1])>>),
    FileOf([i \in 1..Len(VARIANTS) |-> Entry(VARIANTS[i])]) }

VariantsFeeds == { FeedOf([n \in 1..VariantsLen |-> Plain(n)]) }

(***************************************************************************)
(* main  (lines 11-12 and 322-353)                                         *)
(***************************************************************************)
Init ==
  /\ pc = "start"
  /\ limit = HISTORY_LIMIT
  /\ apiKey \in BOOLEAN
  /\ file \in PriorArtifacts \cup UnusableArtifacts
  /\ rss \in BroadFeeds \cup {FeedDown}
  /\ world = BroadWorld
  /\ recentOpeners = <<>>
  /\ openerFreq = <<>>
  /\ usedOpeners = {}
  /\ items = <<>>
  /\ idx = 0
  /\ ext = NoExt
  /\ results = <<>>
  /\ loc = NoLoc
  /\ failed = {}
  /\ writes = 0
  /\ seed = <<>>
  /\ past = <<>>

\* a long run over one kind of article
InitRun ==
  /\ pc = "start"
  /\ limit = HISTORY_LIMIT
  /\ apiKey \in BOOLEAN
  /\ file \in PriorArtifacts
  /\ rss \in RunFeeds \cup {FeedDown}
  /\ world = RunWorld
  /\ recentOpeners = <<>>
  /\ openerFreq = <<>>
  /\ usedOpeners = {}
  /\ items = <<>>
  /\ idx = 0
  /\ ext = NoExt
  /\ results = <<>>
  /\ loc = NoLoc
  /\ failed = {}
  /\ writes = 0
  /\ seed = <<>>
  /\ past = <<>>

\* variant: a missing credential is only logged
CheckKey_noExit ==
  /\ pc = "start"
  /\ pc' = "load"
  /\ UNCHANGED <<usedOpeners, seed, past, limit, apiKey, file, rss, world, recentOpeners, openerFreq, items, idx, ext,
                 results, loc, failed, writes>>

\* runs that differ in the previous artifact and in the history-seed limit
InitLoad ==
  /\ pc = "start"
  /\ limit \in 0..MaxArtifact
  /\ apiKey = TRUE
  /\ file \in LoadArtifacts
  /\ rss = FeedOf(<<Plain(1)>>)
  /\ world = LoadWorld
  /\ recentOpeners = <<>>
  /\ openerFreq = <<>>
  /\ usedOpeners = {}
  /\ items = <<>>
  /\ idx = 0
  /\ ext = NoExt
  /\ results = <<>>
  /\ loc = NoLoc
  /\ failed = {}
  /\ writes = 0
  /\ seed = <<>>
  /\ past = <<>>

\* the first of several consecutive runs over a two-article feed
InitRuns ==
  /\ pc = "start"
  /\ limit = HISTORY_LIMIT
  /\ apiKey = TRUE
  /\ file \in PriorArtifacts
  /\ rss \in RerunFeeds
  /\ world = RunWorld
  /\ recentOpeners = <<>>
  /\ openerFreq = <<>>
  /\ usedOpeners = {}
  /\ items = <<>>
  /\ idx = 0
  /\ ext = NoExt
  /\ results = <<>>
  /\ loc = NoLoc
  /\ failed = {}
  /\ writes = 0
  /\ seed = <<>>
  /\ past = <<>>

\* a run of the move-table generator over articles of one kind
InitMoves ==
  /\ pc = "start"
  /\ limit = HISTORY_LIMIT
  /\ apiKey = TRUE
  /\ file \in {FileOf(<<>>), FileOf(<<Entry(HowThe)>>)}
  /\ rss \in MoveFeeds
  /\ world = MovesWorld
  /\ recentOpeners = <<>>
  /\ openerFreq = <<>>
  /\ usedOpeners = {}
  /\ items = <<>>
  /\ idx = 0
  /\ ext = NoExt
  /\ results = <<>>
  /\ loc = NoLoc
  /\ failed = {}
  /\ writes = 0
  /\ seed = <<>>
  /\ past = <<>>

\* a run of the template-based generator over articles of one of the four
\* domains with fixed templates
InitDomains ==
  /\ pc = "start"
  /\ limit = HISTORY_LIMIT
  /\ apiKey = TRUE
  /\ file \in {FileOf(<<>>), FileOf(<<Entry(HowThe)>>)}
  /\ rss \in FixedFeeds
  /\ world = RunWorld
  /\ recentOpeners = <<>>
  /\ openerFreq = <<>>
  /\ usedOpeners = {}
  /\ items = <<>>
  /\ idx = 0
  /\ ext = NoExt
  /\ results = <<>>
  /\ loc = NoLoc
  /\ failed = {}
  /\ writes = 0
  /\ seed = <<>>
  /\ past = <<>>

\* a run of the variant-pool generator
InitVariants ==
  /\ pc = "start"
  /\ limit = HISTORY_LIMIT_VARIANTS
  /\ apiKey = TRUE
  /\ file \in VariantsArtifacts
  /\ rss \in VariantsFeeds
  /\ world = VariantsWorld
  /\ recentOpeners = <<>>
  /\ openerFreq = <<>>
  /\ usedOpeners = {}
  /\ items = <<>>
  /\ idx = 0
  /\ ext = NoExt
  /\ results = <<>>
  /\ loc = NoLoc
  /\ failed = {}
  /\ writes = 0
  /\ seed = <<>>
  /\ past = <<>>

\* lines 11-12: the credential check at module load
CheckKey ==
  /\ pc = "start"
  /\ pc' = IF apiKey THEN "load" ELSE "exit1"
  /\ UNCHANGED <<usedOpeners, seed, past, limit, apiKey, file, rss, world, recentOpeners, openerFreq, items, idx, ext,
                 results, loc, failed, writes>>

\* variant: loadRecentOpeners has no catch, the rejection reaches main().catch
AfterLoad_rejects(f) ==
  IF f.readable \/ f.kind \in {"string", "scalars"} THEN "feed" ELSE "exit1"

\* line 323: the await never rejects, whatever the file holds
AfterLoad(f) == "feed"

\* lines 323-324
LoadHistory ==
  /\ pc = "load"
  /\ recentOpeners' = loadRecentOpeners(file, limit)
  /\ openerFreq' = <<>>
  /\ usedOpeners' = {}
  /\ seed' = recentOpeners'
  /\ pc' = AfterLoad(file)
  /\ UNCHANGED <<past, limit, apiKey, file, rss, world, items, idx, ext, results, loc, failed, writes>>

\* where the loop goes after the iteration of article i
AfterArticle(i, n) == IF i < n THEN "extract" ELSE "write"

\* variant: no catch inside the loop, the rejection reaches main().catch
AfterThrow_fatal(i, n) == "exit1"

\* lines 343-345: the catch inside the loop logs and goes on with the next item
AfterThrow(i, n) == AfterArticle(i, n)

\* variant: the artifact is emptied before the feed is fetched
ParseFeed_truncates ==
  /\ pc = "feed"
  /\ file' = FileOf(<<>>)
  /\ writes' = writes + 1
  /\ IF ~rss.up
     THEN /\ pc' = "exit1"
          /\ UNCHANGED <<items, idx, results>>
     ELSE /\ items' = Slice0(dedupe(rss.items), MAX_ARTICLES)
          /\ results' = <<>>
          /\ idx' = 1
          /\ pc' = AfterArticle(0, Len(items'))
  /\ UNCHANGED <<usedOpeners, seed, past, limit, apiKey, rss, world, recentOpeners, openerFreq, ext, loc,
                 failed>>

\* lines 326-328; a rejected parseURL reaches main().catch (line 353)
ParseFeed ==
  /\ pc = "feed"
  /\ IF ~rss.up
     THEN /\ pc' = "exit1"
          /\ UNCHANGED <<items, idx, results>>
     ELSE /\ items' = Slice0(dedupe(rss.items), MAX_ARTICLES)
          /\ results' = <<>>
          /\ idx' = 1
          /\ pc' = AfterArticle(0, Len(items'))
  /\ UNCHANGED <<usedOpeners, seed, past, limit, apiKey, file, rss, world, recentOpeners, openerFreq, ext, loc,
                 failed, writes>>

\* line 257: await extractArticle(link)
Extract ==
  /\ pc = "extract"
  /\ \E outcome \in world.outcomes :
        ext' = extractArticle(items[idx].link, outcome)
  /\ pc' = "generate"
  /\ UNCHANGED <<usedOpeners, seed, past, limit, apiKey, file, rss, world, recentOpeners, openerFreq, items, idx,
                 results, loc, failed, writes>>

\* lines 333-341: the Result main pushes
ResultOf(item, s) ==
  [ title   |-> IF Truthy(item.title) THEN item.title.id ELSE "",
    url     |-> item.link,
    section |-> IF item.section.id # "" THEN item.section.id ELSE "Top",
    image   |-> s.image,
    bullets |-> s.bullets ]

\* variant: the history is written before the two bullets are cleaned
HistoryAfterThrow_written(s, recent, freq) ==
  IF "recent" \in DOMAIN s.g THEN [recent |-> s.g.recent, freq |-> s.g.freq]
  ELSE [recent |-> recent, freq |-> freq]

\* the history main holds when summarizeItem threw: lines 306-313 are the
\* only writes and every statement that throws is above them (lines 257-298)
HistoryAfterThrow(s, recent, freq) == [recent |-> recent, freq |-> freq]

\* lines 332-345: results.push after the call returned s, or the catch of the
\* loop when it threw
Finish(s) ==
  /\ loc' = s
  /\ IF s.threw
     THEN /\ failed' = failed \cup {idx}
          /\ idx' = idx + 1
          /\ pc' = AfterThrow(idx, Len(items))
          /\ recentOpeners' = HistoryAfterThrow(s, recentOpeners, openerFreq).recent
          /\ openerFreq' = HistoryAfterThrow(s, recentOpeners, openerFreq).freq
          /\ UNCHANGED <<usedOpeners, results>>
     ELSE /\ recentOpeners' = s.g.recent
          /\ openerFreq' = s.g.freq
          /\ usedOpeners' = (IF world.generator = "templates" THEN usedOpeners
                             ELSE s.g.used)
          /\ results' = Append(results, ResultOf(items[idx], s))
          /\ pc' = "sleep"
          /\ UNCHANGED <<failed, idx>>

\* lines 258-317 and 332-345: the rest of summarizeItem from the generation
\* call on, then Finish
Summarize ==
  /\ pc = "generate"
  /\ \E reply \in world.replies, shuffled \in world.shuffles :
        Finish(IF world.generator = "moves"
               THEN summarizeItemMoves(items[idx], ext, reply, recentOpeners,
                                       usedOpeners, openerFreq)
               ELSE IF world.generator = "variants"
               THEN summarizeItemVariants(items[idx], ext, reply, shuffled,
                                          recentOpeners, usedOpeners, openerFreq)
               ELSE summarizeItem(items[idx], ext, reply, recentOpeners, openerFreq))
  /\ UNCHANGED <<seed, past, limit, apiKey, file, rss, world, items, ext, writes>>

\* variant: after the pause the generation call is made again for the article
\* that was just accepted
Sleep_sameArticle ==
  /\ pc = "sleep"
  /\ pc' = "generate"
  /\ UNCHANGED <<usedOpeners, seed, past, limit, apiKey, file, rss, world, recentOpeners, openerFreq,
                 items, idx, ext, results, loc, failed, writes>>

\* line 342: await sleep(250)
Sleep ==
  /\ pc = "sleep"
  /\ idx' = idx + 1
  /\ pc' = AfterArticle(idx, Len(items))
  /\ UNCHANGED <<usedOpeners, seed, past, limit, apiKey, file, rss, world, recentOpeners, openerFreq, items, ext,
                 results, loc, failed, writes>>

\* variant: the Results are appended to the entries the file already holds
WriteArtifact_merge ==
  /\ pc = "write"
  /\ file' = FileOf(file.arr \o results)
  /\ writes' = writes + 1
  /\ pc' = "done"
  /\ UNCHANGED <<usedOpeners, seed, past, limit, apiKey, rss, world, recentOpeners, openerFreq, items, idx, ext,
                 results, loc, failed>>

\* lines 348-350
WriteArtifact ==
  /\ pc = "write"
  /\ file' = FileOf(results)
  /\ writes' = writes + 1
  /\ pc' = "done"
  /\ UNCHANGED <<usedOpeners, seed, past, limit, apiKey, rss, world, recentOpeners, openerFreq, items, idx, ext,
                 results, loc, failed>>

\* the script is started again after a run that ended normally; the new
\* process finds the file the previous one wrote and is served the same feed
Rerun ==
  /\ pc = "done"
  /\ Len(past) + 1 < MaxRuns
  /\ past' = Append(past, [seed |-> seed, results |-> results])
  /\ pc' = "start"
  /\ recentOpeners' = <<>>
  /\ openerFreq' = <<>>
  /\ usedOpeners' = {}
  /\ items' = <<>>
  /\ idx' = 0
  /\ ext' = NoExt
  /\ results' = <<>>
  /\ loc' = NoLoc
  /\ failed' = {}
  /\ writes' = 0
  /\ seed' = <<>>
  /\ UNCHANGED <<limit, apiKey, file, rss, world>>

Next ==
  \/ CheckKey
  \/ LoadHistory
  \/ ParseFeed
  \/ Extract
  \/ Summarize
  \/ Sleep
  \/ WriteArtifact

Spec    == Init /\ [][Next]_vars
SpecRun == InitRun /\ [][Next]_vars
SpecLoad == InitLoad /\ [][Next]_vars

\* the move-table generator (lines 355-739)
SpecMoves == InitMoves /\ [][Next]_vars

\* the template-based generator on entertainment, gov, courts and realestate
\* articles
SpecDomains == InitDomains /\ [][Next]_vars

\* the variant-pool generator (src/unnamed/part_001)
SpecVariants == InitVariants /\ [][Next]_vars

\* consecutive runs
NextRuns == Next \/ Rerun
SpecRuns == InitRuns /\ [][NextRuns]_vars

(***************************************************************************)
(* Properties                                                              *)
(***************************************************************************)
\* the teaser stored in the i-th Result
StoredTeaser(i) == results[i].bullets[3]

\* a summarizeItem call has just returned and its Result has been pushed
JustAccepted == pc = "sleep" /\ loc.called /\ ~loc.threw

LastTeaser == StoredTeaser(Len(results))

\* C1: every teaser stored as bullets[2] of a Result contains no "?" and its
\* lower-cased first word is not one of QUESTIONY_OPENERS.
C1_NoInterrogativeTeaser ==
  \A i \in 1..Len(results) :
     /\ ~ContainsQuestionMark(StoredTeaser(i))
     /\ FirstWordOf(StoredTeaser(i)) \notin QUESTIONY_OPENERS

\* a step of the article loop keeps every element of recentOpeners in place
OpenersKept ==
  pc \in {"extract", "generate", "sleep", "write"} =>
     (Len(recentOpeners') >= Len(recentOpeners)
        /\ SubSeq(recentOpeners', 1, Len(recentOpeners)) = recentOpeners)

\* C2: when a teaser is accepted, the opener of the teaser actually stored is
\* an element of recentOpeners, and no element of recentOpeners is removed
\* during the article loop.
C2_StoredOpenerRecorded ==
  /\ [](JustAccepted => Includes(recentOpeners, firstTwoWords(LastTeaser)))
  /\ [][OpenersKept]_vars

\* C3: an accepted teaser other than the neutral fallback sentence never has
\* an opener that was in recentOpeners when its article was processed.
C3_NoRepeatedOpener ==
  JustAccepted /\ LastTeaser # NEUTRAL
     => ~Includes(loc.recentBefore, firstTwoWords(LastTeaser))

\* C4: no word is the lower-cased first word of more than FIRST_WORD_CAP of
\* the teasers stored in one run's Results.
C4_FirstWordCap ==
  \A i \in 1..Len(results) :
     Cardinality({ j \in 1..Len(results) :
                     FirstWordOf(StoredTeaser(j)) = FirstWordOf(StoredTeaser(i)) })
        <= FIRST_WORD_CAP

\* C5: every Result has exactly 3 bullets and each of them is a non-empty
\* string, whatever the generation collaborator did and whatever text was
\* available.
C5_ThreeNonEmptyBullets ==
  \A i \in 1..Len(results) :
     /\ Len(results[i].bullets) = 3
     /\ \A k \in 1..3 : results[i].bullets[k] # <<>>

\* the reply is one of the collaborator failures: the call threw, the reply
\* is not JSON, or it is JSON of the wrong shape
FailedReply(r) ==
  \/ r.kind \in {"throw", "notJson", "bulletsMissing", "bulletsNotArray"}
  \/ r.kind = "array" /\ \E i \in 1..Len(r.arr) : ~r.arr[i].str

\* C6: a failure of the generation collaborator for one article never makes
\* summarizeItem throw: a Result for the article is appended.
C6_GenerationFailureAbsorbed ==
  pc \in {"extract", "generate", "sleep", "write", "done"}
     /\ loc.called /\ FailedReply(loc.reply)
     => /\ ~loc.threw
        /\ results # <<>>
        /\ results[Len(results)].url = loc.item.link

\* what one step of Summarize that does not throw must do
AcceptStep ==
  (pc = "generate" /\ ~loc'.threw) =>
     /\ pc' = "sleep"
     /\ Len(results') = Len(results) + 1
     /\ SubSeq(results', 1, Len(results)) = results
     /\ results'[Len(results')].bullets[3] = loc'.g.teaser
     /\ loc'.g.teaser # <<>>
     /\ loc'.g.rederived <= 1
     /\ loc'.g.teaser \in {loc'.g.composed, loc'.g.alt, NEUTRAL}

\* C7: the repetition guard always ends in acceptance: for every history and
\* every article whose processing does not throw, exactly one Result with a
\* non-empty teaser is appended, after at most one re-derivation, the teaser
\* being the composed line, the alternate or the neutral fallback.
C7_GuardAlwaysAccepts == [][AcceptStep]_vars

\* an article whose composed teaser and alternate both repeat was accepted
C7_NeutralTaken ==
  JustAccepted /\ loc.g.path = "neutral" /\ LastTeaser = NEUTRAL

\* the number of articles whose loop iteration has ended
Completed ==
  IF pc \in {"extract", "generate"} THEN idx - 1
  ELSE IF pc = "sleep" THEN idx
  ELSE Len(items)

\* the links of the first n items whose iteration did not throw, in order
RECURSIVE SurvivorLinks(_)
SurvivorLinks(n) ==
  IF n = 0 THEN <<>>
  ELSE IF n \in failed THEN SurvivorLinks(n - 1)
  ELSE Append(SurvivorLinks(n - 1), items[n].link)

ThrowStep ==
  (pc = "generate" /\ loc'.threw) =>
     /\ results' = results
     /\ idx' = idx + 1
     /\ pc' = (IF idx < Len(items) THEN "extract" ELSE "write")

SkipInv ==
  /\ pc \in {"extract", "generate", "sleep", "write", "done"} =>
        [i \in 1..Len(results) |-> results[i].url] = SurvivorLinks(Completed)
  /\ pc = "done" => file = FileOf(results) /\ writes = 1
  /\ pc = "exit1" => failed = {} /\ writes = 0

\* C8: when summarizeItem throws for article i no Result is appended for it,
\* the articles after i are still processed in order, the artifact written
\* holds the Results of all articles that did not throw, and the run does not
\* take the exit-code-1 path.
C8_SkipAndContinue == []SkipInv /\ [][ThrowStep]_vars

\* a run ended after an article that threw was followed by one that did not
C8_SkippedThenWritten ==
  /\ pc = "done" /\ file = FileOf(results) /\ results # <<>>
  /\ \E i \in failed : i < Len(items) /\ (i + 1) \notin failed

\* C9 as stated: every extraction failure yields { text: "", image: null }
\* and the article still reaches a Result.
C9_FailureYieldsNullImage ==
  /\ (pc = "generate" /\ ext.outcome # "ok")
        => (ext.text = EmptyText /\ ext.image = NoImage)
  /\ (loc.called /\ loc.ext.outcome # "ok" /\ ~FailedReply(loc.reply))
        => (~loc.threw /\ results # <<>>
              /\ results[Len(results)].url = loc.item.link)

\* C9 (amended): an extraction failure yields text "" without throwing, with
\* image null when the fetch or the DOM construction failed and the page's
\* og:image when only Readability failed, and the article still reaches a
\* Result.
C9_ExtractionFailureAbsorbed ==
  /\ (pc = "generate" /\ ext.outcome \in {"fetchError", "httpNotOk", "domError"})
        => (ext.text = EmptyText /\ ext.image = NoImage)
  /\ (pc = "generate" /\ ext.outcome = "readabilityError")
        => (ext.text = EmptyText /\ ext.image = OgImage(items[idx].link))
  /\ (loc.called /\ loc.ext.outcome # "ok" /\ ~FailedReply(loc.reply))
        => (~loc.threw /\ results # <<>>
              /\ results[Len(results)].url = loc.item.link
              /\ results[Len(results)].image = loc.ext.image)

\* an article whose page Readability could not parse was accepted with the
\* page's image
C9_ReadabilityFailureAccepted ==
  /\ JustAccepted /\ loc.ext.outcome = "readabilityError"
  /\ loc.ext.image # NoImage /\ ~FailedReply(loc.reply)
  /\ results[Len(results)].url = loc.item.link

\* C10: when extraction returns empty text, hook extraction and domain
\* classification operate on the fallback article text (excerpt, else title).
C10_FallbackTextEverywhere ==
  (loc.called /\ loc.text = EmptyText /\ Truthy(loc.articleText)) =>
     /\ loc.hooks = extractHooks(loc.articleText, loc.item.title)
     /\ loc.domain = detectDomain(loc.articleText, loc.item.section)

\* C11: a missing OPENAI_API_KEY or a failing feed fetch ends the process with
\* exit code 1 before any article is processed: no extraction or generation
\* call has been made, no opener has been added to the seed of the history,
\* no Result exists and nothing is written.
C11_FatalBeforeAnyArticle ==
  /\ (~apiKey /\ pc # "start") => pc = "exit1"
  /\ (apiKey /\ ~rss.up /\ pc \notin {"start", "load", "feed"}) => pc = "exit1"
  /\ pc = "exit1" =>
        /\ ~apiKey \/ ~rss.up
        /\ ext = NoExt /\ loc = NoLoc
        /\ items = <<>> /\ results = <<>> /\ failed = {} /\ writes = 0
        /\ openerFreq = <<>> /\ usedOpeners = {}
        /\ recentOpeners = (IF apiKey THEN loadRecentOpeners(file, limit)
                            ELSE <<>>)

\* the feed could not be fetched in a run that had loaded a non-empty history
C11_FeedDownAfterSeed ==
  pc = "exit1" /\ apiKey /\ ~rss.up /\ recentOpeners # <<>>

\* seq.slice(-n): the last n elements
LastN(seq, n) ==
  IF n = 0 THEN <<>>
  ELSE SubSeq(seq, IF Len(seq) <= n THEN 1 ELSE Len(seq) - n + 1, Len(seq))

\* the history has just been loaded from a readable artifact
JustLoaded == pc = "feed" /\ file.readable

FirstAfterUnusable == ~file.readable /\ writes = 0 /\ idx = 1 /\ JustAccepted

\* C13: when the previous artifact is absent, unreadable, not valid JSON, or
\* valid JSON that is not an array, loadRecentOpeners returns an empty history
\* without throwing: the run goes on as a first run (empty seed, so the first
\* article keeps its composed teaser) and does not take the fatal exit for
\* that reason.
C13_UnusableArtifactIsFirstRun ==
  /\ (~file.readable /\ apiKey /\ rss.up) => pc # "exit1"
  /\ (~file.readable /\ pc = "feed") => recentOpeners = <<>> /\ openerFreq = <<>>
  /\ FirstAfterUnusable =>
        /\ loc.recentBefore = <<>> /\ loc.freqBefore = <<>>
        /\ loc.g.path = "composed"
        /\ LastTeaser = buildTeaser(loc.hooks, loc.domain, loc.item.title)

\* a run whose previous artifact was not valid JSON accepted its first article
C13_BadJsonThenAccepted ==
  FirstAfterUnusable /\ file.kind = "badJson" /\ LastTeaser # NEUTRAL

\* a step that writes the artifact is taken after the last article, and it
\* replaces the file by this run's Results; no other step changes the file
WriteStep ==
  /\ writes' # writes =>
        /\ pc = "write" /\ idx = Len(items) + 1 /\ pc' = "done"
        /\ writes' = writes + 1
        /\ results' = results
        /\ file' = FileOf(results)
  /\ writes' = writes => file' = file

WrittenInv ==
  /\ writes <= 1
  /\ (pc = "done") <=> (writes = 1)
  /\ pc = "done" =>
        /\ file = FileOf(results)
        /\ Len(file.arr) = Len(items) - Cardinality(failed)
        /\ [i \in 1..Len(file.arr) |-> file.arr[i].url] = SurvivorLinks(Len(items))

\* C14: a run that passed the top-level preconditions writes the artifact
\* exactly once, after the last article, and the artifact is exactly the
\* run's Results: one entry per article that did not throw, in processing
\* order, nothing of the previous artifact kept, the empty array when no
\* article survived.
C14_ArtifactIsThisRunsResults == []WrittenInv /\ [][WriteStep]_vars

\* every article of a non-empty feed threw and the empty array was written
C14_EmptyArrayWritten ==
  pc = "done" /\ Len(items) > 1 /\ Cardinality(failed) = Len(items)
     /\ file = FileOf(<<>>)

\* the openers of the teasers stored in a list of Results, in order
StoredOpeners(arr) == [i \in 1..Len(arr) |-> firstTwoWords(arr[i].bullets[3])]

\* the history of a run other than the first has just been loaded
SeededByPreviousRun == Len(past) > 0 /\ pc = "feed"

\* C15: when run N produced no more Results than the history limit, the
\* history at the start of run N+1 is exactly the sequence of the openers of
\* the teasers stored in run N's Results, in processing order; an opener of
\* run N's seed that opens no teaser stored in run N is not in it.
C15_SeedIsPreviousRunsOpeners ==
  (SeededByPreviousRun /\ Len(past[Len(past)].results) <= limit) =>
     /\ recentOpeners = StoredOpeners(past[Len(past)].results)
     /\ \A i \in 1..Len(past[Len(past)].seed) :
           ~Includes(StoredOpeners(past[Len(past)].results), past[Len(past)].seed[i])
              => ~Includes(recentOpeners, past[Len(past)].seed[i])

\* the second run starts with openers of the first run's teasers and without
\* an opener the first run had been seeded with
C15_OldOpenerDropped ==
  /\ SeededByPreviousRun /\ recentOpeners # <<>>
  /\ \E i \in 1..Len(past[1].seed) : ~Includes(recentOpeners, past[1].seed[i])

\* the articles before the current one have all ended, by a Result or by the
\* catch of the loop, and none after it has begun
SequentialInv ==
  /\ pc \in {"extract", "generate", "sleep"} => idx \in 1..Len(items)
  /\ pc \in {"extract", "generate"} => Len(results) + Cardinality(failed) = idx - 1
  /\ pc = "sleep" => Len(results) + Cardinality(failed) = idx
  /\ \A i \in failed : i < idx

\* the generation step of article idx works on that article's extraction and
\* on the history as the articles before it left it; the history changes in
\* no other step of the loop
SequentialStep ==
  /\ pc = "extract" => (pc' = "generate" /\ idx' = idx)
  /\ pc = "generate" =>
        /\ loc'.item = items[idx] /\ loc'.ext = ext
        /\ loc'.recentBefore = recentOpeners /\ loc'.freqBefore = openerFreq
        /\ ~loc'.threw => (recentOpeners' = loc'.g.recent /\ openerFreq' = loc'.g.freq)
  /\ pc \in {"feed", "extract", "sleep", "write"} =>
        (recentOpeners' = recentOpeners /\ openerFreq' = openerFreq)

FirstMatchOfConcatenation(text, section) ==
  FirstMatch(section.kw \cup text.kw, section.kw \cup text.kw)

\* C17: detectDomain returns one of the six domains and agrees with the
\* first-match-wins classifier over the concatenation of section label and
\* body text; a keyword found only in the section label selects its domain
\* for each of the five rules.
C17_FirstMatchOverSectionAndText ==
  loc.called =>
     /\ loc.domain \in Domains
     /\ loc.domain = detectDomain(loc.text, loc.item.section)
     /\ loc.domain = FirstMatchOfConcatenation(loc.text, loc.item.section)

\* the statistic template of the sports list for a number
StatisticTemplate(num) == TeaserTable(<<>>, num).sports[2]

\* the call composed a teaser for a sports article against an empty history
SportsOnEmptyHistory ==
  loc.called /\ loc.domain = "sports"
     /\ loc.recentBefore = <<>> /\ loc.freqBefore = <<>>

\* C18: for a sports article whose hooks hold a number, processed with an
\* empty history, the composed teaser is the statistic template with
\* numbers[0], whether or not an actor is available; the actor template is
\* composed only when there is no number.
C18_SportsNumberGivesStatistic ==
  SportsOnEmptyHistory =>
     /\ Len(loc.hooks.numbers) >= 1 =>
           loc.g.composed = StatisticTemplate(loc.hooks.numbers[1])
     /\ (Len(loc.g.composed) >= 2 /\ loc.g.composed[1] = "Read"
           /\ loc.g.composed[2] = "what") => Len(loc.hooks.numbers) = 0

\* the gov sentence of the move taken when an article has no date, no board
\* impact and no number
GovMapSentence == MOVES(MoveHooks([actors |-> <<>>, numbers |-> <<>>, dates |-> <<>>])).gov.map

\* the article just accepted and the one before it are consecutive gov
\* articles without date, board impact or number, and the third bullet of
\* each was rewritten (a stored gov-map sentence or a capped fallback can
\* only come from a rewrite)
TwoGovRewrites ==
  /\ JustAccepted /\ idx >= 2 /\ (idx - 1) \notin failed
  /\ loc.domain = "gov" /\ loc.g.rewritten
  /\ pickMoveForDomain(loc.domain, loc.hooks) = "map"
  /\ detectDomain(PageText(items[idx - 1].link), items[idx - 1].section) = "gov"
  /\ results[Len(results) - 1].url = items[idx - 1].link
  /\ results[Len(results) - 1].bullets[3] \in {GovMapSentence, NEUTRAL}

\* C19: in the move-table generator, of two consecutive gov articles that
\* select the same gov move and whose third bullets are both rewritten, the
\* second is not stored with the opener of the first.
C19_SecondGovTeaserDiffers ==
  TwoGovRewrites =>
     firstTwoWords(LastTeaser)
        # firstTwoWords(results[Len(results) - 1].bullets[3])

\* C20: in the move-table generator a third bullet that needsRewrite rejects
\* is replaced by a sentence that passes the content filters: the teaser
\* stored after rewrite, first-word cap and applyCapsAndRecord is not
\* questionish and contains no banned phrase.
C20_RewrittenTeaserPassesFilters ==
  (JustAccepted /\ loc.g.rewritten) =>
     /\ ~isQuestionish(LastTeaser)
     /\ ~BANNED_PHRASES_MOVES(LastTeaser)

\* C21: in the template-based generator no stored teaser matches
\* BANNED_PHRASES, whatever actor or number is substituted - an actor that
\* contains a banned word included - on the composed, the alternate and the
\* fallback path.
C21_NoBannedPhraseInTeaser ==
  /\ \A i \in 1..Len(results) : ~BANNED_PHRASES(StoredTeaser(i))
  /\ JustAccepted =>
        /\ ~BANNED_PHRASES(loc.g.composed)
        /\ (loc.g.path # "composed" => ~BANNED_PHRASES(loc.g.alt))
        /\ ~BANNED_PHRASES(NEUTRAL)

\* an article whose actor contains a banned word was accepted
C21_BannedActorReplaced ==
  /\ JustAccepted
  /\ BANNED_PHRASES(pickBestActor(loc.hooks, loc.item.title))
  /\ loc.g.path = "composed" /\ LastTeaser = NEUTRAL

\* a word of a rendered sentence is the token t, possibly with the
\* punctuation the templates put around a substituted value
Carries(w, t) ==
  w \in { p \o t \o q : p \in {"", "("}, q \in {"", ".", ")--agenda", "--details"} }

\* the sentence s contains the string `when`
ContainsString(s, when) ==
  /\ Len(when) > 0
  /\ \E i \in 1..(Len(s) - Len(when) + 1) :
        \A k \in 1..Len(when) : Carries(s[i + k - 1], when[k])

\* C22: in the move-table generator no date hook is substituted into the
\* stored teaser: when hooks.dates is not empty, the sentence the rewrite
\* path writes to bullets[2] does not contain hooks.dates[0].
C22_NoDateInRewrittenTeaser ==
  (JustAccepted /\ loc.g.rewritten /\ Len(loc.hooks.dates) > 0) =>
     /\ ~ContainsString(loc.g.line, loc.hooks.dates[1])
     /\ ~ContainsString(LastTeaser, loc.hooks.dates[1])

\* the number of Results whose stored teaser begins with the word w
StoredWith(w) ==
  Cardinality({ i \in 1..Len(results) : FirstWordOf(StoredTeaser(i)) = w })

\* C23: in the template-based generator, after any prefix of a run,
\* openerFreq[w] is the number of Results whose stored teaser's lower-cased
\* first word is w, for every word w.
C23_FrequencyMapIsExact ==
  pc \in {"extract", "generate", "sleep", "write", "done"} =>
     \A w \in DOMAIN openerFreq \cup
               { FirstWordOf(StoredTeaser(i)) : i \in 1..Len(results) } :
        FreqOf(openerFreq, w) = StoredWith(w)

\* the article just accepted composed a teaser whose opener was not in
\* recentOpeners and whose first word was below the cap
FreshOpener ==
  /\ JustAccepted
  /\ ~Includes(loc.recentBefore, firstTwoWords(loc.g.composed))
  /\ FreqOf(loc.freqBefore, FirstWordOf(loc.g.composed)) < FIRST_WORD_CAP

\* the article just accepted composed an opener that is not in the seed but
\* that an earlier article of the run had composed
SecondWithOpener ==
  /\ JustAccepted
  /\ ~Includes(seed, firstTwoWords(loc.g.composed))
  /\ Includes(loc.recentBefore, firstTwoWords(loc.g.composed))

\* C24: in the template-based generator an article whose composed opener is
\* not in recentOpeners and whose first word is below FIRST_WORD_CAP is stored
\* exactly as composed and its opener is appended to recentOpeners; of two
\* articles of a run that compose the same opener absent from the seed, the
\* earlier keeps the composed teaser and only the later is rewritten.
C24_FirstComeKeepsComposed ==
  /\ FreshOpener =>
        /\ loc.g.path = "composed" /\ LastTeaser = loc.g.composed
        /\ recentOpeners = Append(loc.recentBefore, firstTwoWords(loc.g.composed))
  /\ SecondWithOpener =>
        /\ loc.g.path # "composed"
        /\ \E j \in 1..(Len(results) - 1) :
              firstTwoWords(StoredTeaser(j)) = firstTwoWords(loc.g.composed)

\* a second article composed "Read what ..." after the first had kept it
C24_LaterOneRewritten ==
  SecondWithOpener /\ firstTwoWords(loc.g.composed) = "read what"
     /\ LastTeaser # loc.g.composed

\* a step that makes a later article the current one is the end of a pause
PacedStep == (idx' > idx /\ idx >= 1 /\ pc' = "extract") => pc = "sleep"

\* C25: the pacing delay elapses between the end of every article's pipeline
\* and the first outbound request of the next article, also when the earlier
\* article threw and was skipped.
C25_PauseBetweenArticles == [][PacedStep]_vars

\* the candidate phrases of the article of the latest call
Candidates ==
  { loc.item.title.phrases1[i] : i \in 1..Len(loc.item.title.phrases1) }
     \cup { loc.text.phrases2[i] : i \in 1..Len(loc.text.phrases2) }

\* C26: cleanActor never returns a member of ACTOR_STOP, also for a candidate
\* from which a leading interrogative word or a leading article was
\* stripped; no stop-listed phrase is in hooks.actors or chosen by
\* pickBestActor.
C26_NoStopListedActor ==
  loc.called =>
     /\ \A raw \in Candidates : cleanActor(raw) \notin ACTOR_STOP
     /\ \A i \in 1..Len(loc.hooks.actors) : loc.hooks.actors[i] \notin ACTOR_STOP
     /\ pickBestActor(loc.hooks, loc.item.title) \notin ACTOR_STOP

\* a sentence of the pool that chooseVariant must pass over, given the
\* history the latest call started from
Excluded(v) ==
  \/ Includes(loc.recentBefore, firstTwoWords(v))
  \/ firstTwoWords(v) \in loc.usedBefore
  \/ FreqOf(loc.freqBefore, FirstWordOf(v)) >= FIRST_WORD_CAP_VARIANTS

Pool == { VARIANTS[i] : i \in 1..Len(VARIANTS) }

ChoseVariant == loc.called /\ ~loc.threw /\ loc.g.rewritten

\* C27: in the variant-pool generator chooseVariant returns a sentence of the
\* pool; when some sentence has an opener in neither recentOpeners nor
\* usedOpeners and a first word below FIRST_WORD_CAP, the returned sentence
\* is such a sentence, whatever the shuffle order; in every case its opener
\* is added to usedOpeners and the count of its first word grows by exactly
\* one while no other count changes.
C27_FailsOpenOnlyOnExhaustion ==
  ChoseVariant =>
     /\ loc.g.teaser \in Pool
     /\ (\E v \in Pool : ~Excluded(v)) => ~Excluded(loc.g.teaser)
     /\ loc.g.used = loc.usedBefore \cup {firstTwoWords(loc.g.teaser)}
     /\ DOMAIN loc.g.freq = DOMAIN loc.freqBefore \cup {FirstWordOf(loc.g.teaser)}
     /\ \A w \in DOMAIN loc.g.freq :
           loc.g.freq[w] = FreqOf(loc.freqBefore, w)
                             + (IF w = FirstWordOf(loc.g.teaser) THEN 1 ELSE 0)

\* the shuffled pool starts with an excluded sentence and a later, allowed
\* one is returned
C27_PassedOverExcluded ==
  /\ ChoseVariant
  /\ Excluded(loc.shuffled[1])
  /\ ~Excluded(loc.g.teaser)
  /\ loc.freqBefore # <<>>

\* every sentence of the pool is excluded and the first of the shuffled pool
\* is returned
PoolExhausted ==
  /\ ChoseVariant
  /\ \A v \in Pool : Excluded(v)
  /\ loc.g.teaser = loc.shuffled[1]

SkippedStep ==
  (pc = "generate" /\ failed' # failed) =>
     /\ recentOpeners' = recentOpeners
     /\ openerFreq' = openerFreq

WriteOnlyAfterLoop ==
  (file' # file \/ writes' # writes) =>
     (pc = "write" /\ pc' = "done" /\ idx = Len(items) + 1)

\* a run that took the exit-code-1 path wrote nothing, and a run started on
\* the artifact as it is now loads the seed the failed run loaded
FailedRunInv ==
  pc = "exit1" =>
     /\ writes = 0
     /\ apiKey => loadRecentOpeners(file, limit) = seed

\* C29: a run that ends on a top-level failure (missing credential, feed
\* fetch or parse error) leaves the previous artifact unchanged: the only
\* write happens after the article loop, and the next run is seeded from the
\* same history as the failed run.
C29_FailedRunKeepsArtifact == []FailedRunInv /\ [][WriteOnlyAfterLoop]_vars

\* the feed failed in a run that had seeded its history from a previous
\* artifact, which is still in place
C29_ArtifactStillInPlace ==
  /\ pc = "exit1" /\ apiKey /\ ~rss.up
  /\ file.readable /\ file.arr # <<>>
  /\ seed # <<>> /\ seed = OpenersOf(file.arr)

\* the first template of a domain for the article of the latest call, and the
\* second and third templates of the four domains
FirstTemplate ==
  TeaserTable(pickBestActor(loc.hooks, loc.item.title),
              FirstNumber(loc.hooks))[loc.domain][1]
LaterTemplates ==
  { TeaserTable(<<>>, "")[d][i] : d \in FixedDomains, i \in 2..3 }

\* C30: in the template-based generator, for entertainment, gov, courts and
\* realestate articles the stored teaser is the domain's first template or
\* the neutral fallback; whenever the repetition trigger fires the result is
\* the neutral fallback, and the second and third templates of these domains
\* are never emitted.
C30_FixedDomainsNeverRotate ==
  /\ (JustAccepted /\ loc.domain \in FixedDomains) =>
        /\ LastTeaser \in {FirstTemplate, NEUTRAL}
        /\ loc.g.path = "composed" => LastTeaser = FirstTemplate
        /\ loc.g.path # "composed" => LastTeaser = NEUTRAL
  /\ \A i \in 1..Len(results) : StoredTeaser(i) \notin LaterTemplates

\* a realestate article whose rotation composed a sentence with another
\* number and the same opener, so that the neutral sentence was stored
C30_RotatedNumberSameOpener ==
  /\ JustAccepted /\ loc.domain = "realestate"
  /\ loc.g.path = "neutral"
  /\ loc.g.alt # <<>> /\ loc.g.alt # loc.g.composed
  /\ LastTeaser = NEUTRAL

====
